---- MODULE Spec2Model ----
(***************************************************************************)
(* Model of the volcengine-tts-sdk server side: one conversation turn of   *)
(* TTSServerSDK (handleStartConversation / processConversation), the       *)
(* backend session of core/tts.ts (initWebScoketInstance / startSession)   *)
(* and the ServerStreamingAudioTextProcessor that turns backend frames     *)
(* into client events.                                                     *)
(*                                                                         *)
(* The JavaScript runtime is single threaded: every action below is one    *)
(* run-to-completion step between two awaits.  The reader loop             *)
(* (audioProcessPromise), the writer (chatProcessPromise) and the main     *)
(* async function are three activities whose steps interleave freely.      *)
(***************************************************************************)
EXTENDS Integers, Sequences, FiniteSets, TLC

\* ---------------------------------------------------------------- bounds
MaxFrames == 3      \* inbound frames the reader loop consumes in one run
MaxChunks == 2      \* increments the AI text stream yields in one run
MaxTextLen == 3     \* characters of a text handed to the timestamp functions
MaxWords == 2       \* entries of a words array
MaxProcFrames == 3  \* frames handed to a processor on its own
MaxClientEvents == 3 \* server events a client handles in one run
MaxPayloadLen == 2  \* bytes of a payload handed to the codec
MaxSockets == 3     \* WebSockets one client creates in one run
MaxClients == 2     \* client connections a server accepts in one run
MaxHandlers == 2    \* client messages a server handles in one run

\* ------------------------------------------------------------- constants
Undef == 0 - 1      \* JavaScript undefined for a numeric field

\* ------------------------------------------------------------ frame data
\* Message.payload: its byte length, whether the bytes parse as JSON
\* ("none" for no bytes, "bad" for bytes that are not JSON, "obj" for a JSON
\* object), the decoded text of bytes that are not JSON, and the fields of
\* the parsed object.  A text is a sequence of characters; an absent string
\* field is <<>> and an absent number 0 (the code reads them with ||, which
\* treats '' and 0 like undefined); hasWords / hasTimestamps tell whether
\* the field is an array.  Times of a word are in thousandths of a second.
NoPayload ==
  [len |-> 0, json |-> "none", sentence_id |-> Undef, raw |-> <<>>,
   sentence |-> <<>>, text |-> <<>>, content |-> <<>>,
   hasWords |-> FALSE, words |-> <<>>,
   hasTimestamps |-> FALSE, timestamps |-> <<>>,
   duration |-> 0, total_duration |-> 0, totalDuration |-> 0]
BadPayload == [NoPayload EXCEPT !.len = 1, !.json = "bad", !.raw = <<"x">>]
ObjPayload(sid) == [NoPayload EXCEPT !.len = 1, !.json = "obj", !.sentence_id = sid]

\* Values Date.now() + Math.random() can take (always a positive number).
FallbackIds == {7, 8}

Frame(e, s, p) == [event |-> e, sequence |-> s, payload |-> p]

\* Frames the backend delivers to session.receive() during a conversation:
\* sentence starts numbered by the frame's sequence field, audio, sentence
\* end, session end, and the SessionStarted acknowledgment, which the reader
\* loop does not know.
InFrames ==
  {Frame("TTSSentenceStart", s, NoPayload) : s \in {1, 2}}
    \cup {Frame("TTSResponse", Undef, BadPayload)}
    \cup {Frame(e, Undef, NoPayload) : e \in {"TTSSentenceEnd", "TTSEnded", "SessionStarted"}}

\* delta.content of the i-th chunk of the AI stream: empty ("" and null are
\* falsy) or one character, a different one for each chunk (code points).
Contents(i) == {<<>>, <<96 + i>>}

VARIABLES
  pc,             \* position of handleStartConversation / processConversation
  reader,         \* audioProcessPromise: none | running | resolved | rejected
  writer,         \* chatProcessPromise: none | running | sending | resolved | rejected
  sock,           \* backend WebSocket: none | connecting | open | closed
  proc,           \* the ServerStreamingAudioTextProcessor fields
  fullAIResponse, \* local of chatProcessPromise
  sent,           \* frames written to the backend socket, in order
  events,         \* events written to the client socket, in order
  rcvd,           \* history: frames session.receive() returned, in order
  chunks,         \* history: delta.content of the chunks the AI stream yielded
  config,         \* config.tts handed to the TTSServerSDK constructor
  ttsConfig,      \* TTSServerSDK.ttsConfig
  isRunning,      \* TTSServerSDK.isRunning
  server,         \* TTSServerSDK.server: none | created | listening
  startCall,      \* latest start(): none | threw | pending | resolved | rejected
  coreCall,       \* a call of initWebScoketInstance(ttsConfig): none | threw | wsOpen | handshake
  coreSock,       \* the WebSocket that call created: none | connecting | open
  coreSent,       \* frames that call wrote to its socket
  tsIn,           \* arguments of the timestamp functions
  tsOut,          \* what the timestamp function returned
  tsPc,           \* which timestamp function was applied
  sentences,      \* TTSClientSDK.sentences
  stats,          \* TTSClientSDK.stats
  clientLog,      \* history: server events the client handled, in order
  frame,          \* the frame handed to the codec
  wire,           \* the bytes on the wire
  decoded,        \* what decode returned
  codecPc,        \* position of the codec run: idle | encoded | cut | decoded
  conn,           \* the TTSClientSDK connection fields, its sockets and its timers
  connLog,        \* history: reconnects scheduled and connections opened, in order
  hub             \* TTSServerSDK: its client registry, its stop() call, the message
                  \* handlers it runs and what it wrote to its clients' sockets

convVars == <<pc, reader, writer, sock, proc, fullAIResponse, sent, events, rcvd, chunks>>
serverVars == <<config, ttsConfig, isRunning, server, startCall, coreCall, coreSock, coreSent>>
tsVars == <<tsIn, tsOut, tsPc>>
clientVars == <<sentences, stats, clientLog>>
codecVars == <<frame, wire, decoded, codecPc>>
connVars == <<conn, connLog>>
hubVars == <<hub>>
otherVars == <<serverVars, tsVars, clientVars, codecVars, connVars, hubVars>>
tsRest == <<convVars, serverVars, clientVars, codecVars, connVars, hubVars>>
clientRest == <<convVars, serverVars, tsVars, codecVars, connVars, hubVars>>
serverRest == <<convVars, tsVars, clientVars, codecVars, connVars, hubVars>>
codecRest == <<convVars, serverVars, tsVars, clientVars, connVars, hubVars>>
connRest == <<convVars, serverVars, tsVars, clientVars, codecVars, hubVars>>
hubRest == <<convVars, tsVars, clientVars, codecVars, connVars>>
vars == <<convVars, serverVars, tsVars, clientVars, codecVars, connVars, hubVars>>

\* an outbound frame: its event kind and, for TaskRequest, the text
Out(f, text) == [frame |-> f, text |-> text]

\* ------------------------------------------------ processor (pure part)
Truthy(n) == n # Undef /\ n # 0

NewProcessor ==
  [currentSentenceId |-> Undef, currentSentence |-> <<>>, audioChunkCount |-> 0,
   fullText |-> <<>>, totalSentences |-> 0]

\* variant of extractSentenceId: the payload's sentence_id goes before the
\* frame's sequence number
extractSentenceId_payloadFirst(msg, fb) ==
  IF msg.payload.len > 0 /\ msg.payload.json = "obj" /\ msg.payload.sentence_id # Undef
  THEN msg.payload.sentence_id
  ELSE IF msg.sequence # Undef THEN msg.sequence
  ELSE fb

extractSentenceId(msg, fb) ==
  IF msg.sequence # Undef THEN msg.sequence
  ELSE IF msg.payload.len > 0
       THEN IF msg.payload.json = "bad" THEN fb
            ELSE IF msg.payload.sentence_id # Undef THEN msg.payload.sentence_id
                 ELSE fb
       ELSE fb

\* ---------------------------------------------------- character timestamps
\* Characters are one-character strings.  "." and "," stand for the
\* characters of the punctuation class of lines 577 and 657 (full-width
\* comma, full stop, marks, quotes and brackets).
Punct == {".", ","}
IsSpace(c) == c \in {" ", "\n", "\t"}

\* the literals of extractSentenceText: 'unknown sentence' (4 characters),
\* 'empty sentence' (3), 'parse failed' (4)
UnknownSentence == <<"U1", "U2", "U3", "U4">>
EmptySentence == <<"E1", "E2", "E3">>

Max(S) == CHOOSE x \in S : \A y \in S : y <= x
Min2(a, b) == IF a < b THEN a ELSE b

\* Math.round(num / den) for den > 0: the nearest integer, halves upwards
Round(num, den) == (2 * num + den) \div (2 * den)

RECURSIVE StripLeading(_)
StripLeading(t) ==
  IF t # <<>> /\ IsSpace(Head(t)) THEN StripLeading(Tail(t)) ELSE t

RECURSIVE StripTrailing(_)
StripTrailing(t) ==
  IF t # <<>> /\ IsSpace(t[Len(t)]) THEN StripTrailing(SubSeq(t, 1, Len(t) - 1)) ELSE t

\* replace(/\s+/g, ' '): every run of whitespace becomes one space
RECURSIVE CollapseSpaces(_)
CollapseSpaces(t) ==
  IF t = <<>> THEN <<>>
  ELSE IF IsSpace(Head(t)) THEN <<" ">> \o CollapseSpaces(StripLeading(t))
  ELSE <<Head(t)>> \o CollapseSpaces(Tail(t))

\* text.replace(/^\s*\n*/, '').replace(/\s+/g, ' ').trim()
cleanText(text) == StripTrailing(StripLeading(CollapseSpaces(StripLeading(text))))

\* length of the punctuation run /[...]+$/ at the end of a word
RECURSIVE TrailingPunct(_)
TrailingPunct(w) ==
  IF w # <<>> /\ w[Len(w)] \in Punct
  THEN 1 + TrailingPunct(SubSeq(w, 1, Len(w) - 1))
  ELSE 0

\* number of ' ' characters of chars from position idx + 1 on
RECURSIVE SpaceRun(_, _)
SpaceRun(chars, idx) ==
  IF idx < Len(chars) /\ chars[idx + 1] = " " THEN 1 + SpaceRun(chars, idx + 1) ELSE 0

Stamp(c, a, b) == [char |-> c, startTime |-> a, endTime |-> b]

\* one iteration of the loop over words: acc.ts are the timestamps pushed so
\* far and acc.idx is textIndex
wordStep(acc, word, textChars) ==
  LET N == Len(textChars)
      startTime == word.startTime
      endTime == word.endTime
      plen == TrailingPunct(word.word)
      clen == Len(word.word) - plen
      wordDuration == endTime - startTime - plen * 100
      k1 == Min2(clen, N - acc.idx)
      letters == [j \in 1..k1 |->
                    Stamp(textChars[acc.idx + j],
                          Round(startTime * clen + (j - 1) * wordDuration, clen),
                          Round(startTime * clen + j * wordDuration, clen))]
      idx1 == acc.idx + k1
      punctStartTime == endTime - plen * 100
      k2 == Min2(plen, N - idx1)
      puncts == [k \in 1..k2 |->
                   Stamp(textChars[idx1 + k],
                         punctStartTime + (k - 1) * 100,
                         punctStartTime + (k - 1) * 100 + 100)]
      idx2 == idx1 + k2
      k3 == SpaceRun(textChars, idx2)
      spaces == [k \in 1..k3 |-> Stamp(" ", endTime, endTime + 50)]
  IN IF StripLeading(word.word) = <<>>
     THEN acc
     ELSE [ts |-> acc.ts \o letters \o puncts \o spaces, idx |-> idx2 + k3]

RECURSIVE wordLoop(_, _, _)
wordLoop(acc, words, textChars) ==
  IF words = <<>> THEN acc
  ELSE wordLoop(wordStep(acc, Head(words), textChars), Tail(words), textChars)

\* the loop of lines 630-639: each character the words did not reach gets
\* 200 ms from the end of the last timestamp
RECURSIVE leftoverLoop(_, _)
leftoverLoop(acc, textChars) ==
  IF acc.idx < Len(textChars)
  THEN LET lastTime == IF acc.ts # <<>> THEN acc.ts[Len(acc.ts)].endTime ELSE 0
       IN leftoverLoop([ts |-> Append(acc.ts, Stamp(textChars[acc.idx + 1], lastTime, lastTime + 200)),
                        idx |-> acc.idx + 1],
                       textChars)
  ELSE acc

\* variant of convertWordsToCharTimestamps: without the loop of lines 630-639
convertWordsToCharTimestamps_noLeftover(words, text) ==
  wordLoop([ts |-> <<>>, idx |-> 0], words, cleanText(text)).ts

convertWordsToCharTimestamps(words, text) ==
  leftoverLoop(wordLoop([ts |-> <<>>, idx |-> 0], words, cleanText(text)), cleanText(text)).ts

\* the loop of generateEstimatedTimestamps; units counts currentTime in
\* tenths of timePerChar (10 for a character, 3 for a punctuation character)
RECURSIVE estimateLoop(_, _, _, _)
estimateLoop(chars, i, units, totalDuration) ==
  IF i > Len(chars) THEN <<>>
  ELSE LET u == IF chars[i] \in Punct THEN 3 ELSE 10
       IN <<Stamp(chars[i],
                  Round(totalDuration * units, 10 * Len(chars)),
                  Round(totalDuration * (units + u), 10 * Len(chars)))>>
            \o estimateLoop(chars, i + 1, units + u, totalDuration)

generateEstimatedTimestamps(sentence, totalDuration) ==
  IF sentence = <<>>
  THEN [timestamps |-> <<>>, totalDuration |-> 0]
  ELSE [timestamps |-> estimateLoop(sentence, 1, 0, totalDuration),
        totalDuration |-> totalDuration]

Or(a, b) == IF a # <<>> THEN a ELSE b
OrNum(a, b) == IF a # 0 THEN a ELSE b

MaxEnd(ts) == IF ts = <<>> THEN 0 ELSE Max({ts[i].endTime : i \in DOMAIN ts})

\* the words branch of extractTimestampInfo (lines 527-535)
wordsTimestampInfo(words, text) ==
  LET ts == convertWordsToCharTimestamps(words, text)
  IN [timestamps |-> ts, totalDuration |-> MaxEnd(ts)]

\* a || b for the character of a timestamp; an absent one is ''
OrChar(a, b) == IF a # "" THEN a ELSE b

\* variant of passTimestamps: only the camelCase names are read
passTimestamps_camelOnly(p) ==
  LET ts == [i \in DOMAIN p.timestamps |->
               Stamp(p.timestamps[i].character, p.timestamps[i].startTime,
                     p.timestamps[i].endTime)]
  IN [timestamps |-> ts,
      totalDuration |-> OrNum(p.totalDuration, MaxEnd(ts))]

\* the timestamps branch of extractTimestampInfo (lines 534-545)
passTimestamps(p) ==
  LET ts == [i \in DOMAIN p.timestamps |->
               Stamp(OrChar(p.timestamps[i].char, OrChar(p.timestamps[i].character, "")),
                     OrNum(p.timestamps[i].start_time, OrNum(p.timestamps[i].startTime, 0)),
                     OrNum(p.timestamps[i].end_time, OrNum(p.timestamps[i].endTime, 0)))]
  IN [timestamps |-> ts,
      totalDuration |-> OrNum(p.total_duration, OrNum(p.totalDuration, MaxEnd(ts)))]

\* variant of extractTimestampInfo: a payload that does not parse gives no
\* timestamps instead of the estimate
extractTimestampInfo_noFallback(msg, currentSentence) ==
  LET p == msg.payload
  IN IF p.len > 0 /\ p.json = "bad"
     THEN [timestamps |-> <<>>, totalDuration |-> 0]
     ELSE IF p.len > 0 /\ p.hasWords
     THEN wordsTimestampInfo(p.words, Or(p.text, currentSentence))
     ELSE IF p.len > 0 /\ p.hasTimestamps
     THEN passTimestamps(p)
     ELSE IF p.len > 0 /\ Or(p.sentence, p.text) # <<>>
     THEN generateEstimatedTimestamps(Or(p.sentence, p.text),
                                      OrNum(p.duration, OrNum(p.total_duration, 2000)))
     ELSE generateEstimatedTimestamps(currentSentence, 2000)

extractTimestampInfo(msg, currentSentence) ==
  LET p == msg.payload
  IN IF p.len > 0
     THEN IF p.json = "bad"
          THEN generateEstimatedTimestamps(currentSentence, 2000)
          ELSE IF p.hasWords
          THEN wordsTimestampInfo(p.words, Or(p.text, currentSentence))
          ELSE IF p.hasTimestamps
          THEN passTimestamps(p)
          ELSE IF Or(p.sentence, p.text) # <<>>
          THEN generateEstimatedTimestamps(Or(p.sentence, p.text),
                                           OrNum(p.duration, OrNum(p.total_duration, 2000)))
          ELSE generateEstimatedTimestamps(currentSentence, 2000)
     ELSE generateEstimatedTimestamps(currentSentence, 2000)

extractSentenceText(msg) ==
  LET p == msg.payload
  IN IF p.len > 0
     THEN IF p.json = "bad" THEN Or(p.raw, UnknownSentence)
          ELSE Or(p.sentence, Or(p.text, Or(p.content, UnknownSentence)))
     ELSE EmptySentence

\* variant of handleTextChunk: the increment is put in front of the buffer
handleTextChunk_prepend(p, content) ==
  [proc |-> [p EXCEPT !.fullText = content \o @],
   out |-> <<[type |-> "text_chunk", content |-> content]>>]

\* Each handler returns the new processor fields and the events it hands to
\* the callbacks, in order.
handleTextChunk(p, content) ==
  [proc |-> [p EXCEPT !.fullText = @ \o content],
   out |-> <<[type |-> "text_chunk", content |-> content]>>]

\* variant of handleSentenceStart: a sentence still open is reported complete
handleSentenceStart_autoclose(p, msg, fb) ==
  IF msg.event = "TTSSentenceStart"
  THEN LET id == extractSentenceId(msg, fb)
       IN [proc |-> [p EXCEPT !.currentSentenceId = id,
                              !.currentSentence = extractSentenceText(msg),
                              !.audioChunkCount = 0,
                              !.totalSentences = @ + 1],
           out |-> (IF Truthy(p.currentSentenceId)
                    THEN <<[type |-> "sentence_complete", sentenceId |-> p.currentSentenceId,
                            sentence |-> p.currentSentence,
                            totalChunks |-> p.audioChunkCount,
                            audioTimestamps |-> <<>>, totalAudioDuration |-> 0]>>
                    ELSE <<>>)
                   \o (IF Truthy(id)
                       THEN <<[type |-> "sentence_start", sentenceId |-> id,
                             sentence |-> extractSentenceText(msg)]>>
                       ELSE <<>>)]
  ELSE [proc |-> p, out |-> <<>>]

handleSentenceStart(p, msg, fb) ==
  IF msg.event = "TTSSentenceStart"
  THEN LET id == extractSentenceId(msg, fb)
       IN [proc |-> [p EXCEPT !.currentSentenceId = id,
                              !.currentSentence = extractSentenceText(msg),
                              !.audioChunkCount = 0,
                              !.totalSentences = @ + 1],
           out |-> IF Truthy(id)
                   THEN <<[type |-> "sentence_start", sentenceId |-> id,
                             sentence |-> extractSentenceText(msg)]>>
                   ELSE <<>>]
  ELSE [proc |-> p, out |-> <<>>]

\* variant of handleAudioResponse: the chunk is forwarded but not counted
handleAudioResponse_uncounted(p, msg) ==
  IF msg.event = "TTSResponse" /\ Truthy(p.currentSentenceId) /\ msg.payload.len > 0
  THEN [proc |-> p,
        out |-> <<[type |-> "audio_chunk", sentenceId |-> p.currentSentenceId,
                   chunkIndex |-> p.audioChunkCount, isLast |-> FALSE]>>]
  ELSE [proc |-> p, out |-> <<>>]

handleAudioResponse(p, msg) ==
  IF msg.event = "TTSResponse" /\ Truthy(p.currentSentenceId) /\ msg.payload.len > 0
  THEN [proc |-> [p EXCEPT !.audioChunkCount = @ + 1],
        out |-> <<[type |-> "audio_chunk", sentenceId |-> p.currentSentenceId,
                   chunkIndex |-> p.audioChunkCount, isLast |-> FALSE]>>]
  ELSE [proc |-> p, out |-> <<>>]

\* variant of handleSentenceEnd: the chunk count is read after the cleanup
handleSentenceEnd_countAfterReset(p, msg) ==
  IF msg.event = "TTSSentenceEnd" /\ Truthy(p.currentSentenceId)
  THEN LET timestampInfo == extractTimestampInfo(msg, p.currentSentence)
       IN [proc |-> [p EXCEPT !.currentSentenceId = Undef, !.currentSentence = <<>>,
                              !.audioChunkCount = 0],
           out |-> <<[type |-> "sentence_complete", sentenceId |-> p.currentSentenceId,
                      sentence |-> p.currentSentence,
                      totalChunks |-> 0,
                      audioTimestamps |-> timestampInfo.timestamps,
                      totalAudioDuration |-> timestampInfo.totalDuration]>>]
  ELSE [proc |-> p, out |-> <<>>]

\* variant of handleSentenceEnd: the sentence stays open after its end
handleSentenceEnd_keepsOpen(p, msg) ==
  IF msg.event = "TTSSentenceEnd" /\ Truthy(p.currentSentenceId)
  THEN LET timestampInfo == extractTimestampInfo(msg, p.currentSentence)
       IN [proc |-> [p EXCEPT !.audioChunkCount = 0],
           out |-> <<[type |-> "sentence_complete", sentenceId |-> p.currentSentenceId,
                      sentence |-> p.currentSentence,
                      totalChunks |-> p.audioChunkCount,
                      audioTimestamps |-> timestampInfo.timestamps,
                      totalAudioDuration |-> timestampInfo.totalDuration]>>]
  ELSE [proc |-> p, out |-> <<>>]

handleSentenceEnd(p, msg) ==
  IF msg.event = "TTSSentenceEnd" /\ Truthy(p.currentSentenceId)
  THEN LET timestampInfo == extractTimestampInfo(msg, p.currentSentence)
       IN [proc |-> [p EXCEPT !.currentSentenceId = Undef, !.currentSentence = <<>>,
                              !.audioChunkCount = 0],
           out |-> <<[type |-> "sentence_complete", sentenceId |-> p.currentSentenceId,
                      sentence |-> p.currentSentence,
                      totalChunks |-> p.audioChunkCount,
                      audioTimestamps |-> timestampInfo.timestamps,
                      totalAudioDuration |-> timestampInfo.totalDuration]>>]
  ELSE [proc |-> p, out |-> <<>>]

handleChatComplete(p) ==
  [proc |-> p,
   out |-> <<[type |-> "chat_complete", fullText |-> p.fullText,
              totalSentences |-> p.totalSentences]>>]

\* ------------------------------------------------------------ helpers
\* sendToClient for each event of a handler's output
sendToClient(l, out) == l \o out

\* sendErrorToClient
sendErrorToClient(l, message) == sendToClient(l, <<[type |-> "error", message |-> message]>>)

\* ---------------------------------------------------------- configuration
\* a field of config.tts: left out, the empty string or a value
CfgValues == {"undefined", "", "v"}

Configs == [appId : CfgValues, accessKey : CfgValues, wsUrl : CfgValues]

\* !x for a string field: undefined and '' are falsy
Falsy(x) == x = "undefined" \/ x = ""

\* the TTSServerSDK constructor: config.tts?.f || ''
buildTtsConfig(c) ==
  [appId |-> IF Falsy(c.appId) THEN "" ELSE c.appId,
   accessKey |-> IF Falsy(c.accessKey) THEN "" ELSE c.accessKey,
   wsUrl |-> IF Falsy(c.wsUrl) THEN "" ELSE c.wsUrl]

\* the check start() makes before it creates the HTTP server
ttsConfigIncomplete(c) == Falsy(c.appId) \/ Falsy(c.accessKey) \/ Falsy(c.wsUrl)

\* variant of configIncomplete: only the application id is looked at
configIncomplete_appIdOnly(c) == Falsy(c.appId)

\* the check initWebScoketInstance makes before it creates the socket
configIncomplete(c) == Falsy(c.appId) \/ Falsy(c.accessKey) \/ Falsy(c.wsUrl)

\* ------------------------------------------------- states of the components
\* a server that start() brought up with a complete configuration
ServerUp ==
  /\ config = [appId |-> "v", accessKey |-> "v", wsUrl |-> "v"]
  /\ ttsConfig = buildTtsConfig(config)
  /\ isRunning = TRUE
  /\ server = "listening"
  /\ startCall = "resolved"
  /\ coreCall = "none"
  /\ coreSock = "none"
  /\ coreSent = <<>>

\* no timestamp function applied
TsIdle ==
  /\ tsIn = <<>>
  /\ tsOut = <<>>
  /\ tsPc = "idle"

\* a client right after construction
ClientNew ==
  /\ sentences = <<>>
  /\ stats = [totalSentences |-> 0, completedSentences |-> 0, totalChunks |-> 0]
  /\ clientLog = <<>>

\* the codec not in use
DefaultMaxReconnectAttempts == 5

\* a TTSClientSDK after construction with the default client config.
\* socks are the WebSockets it created, connectTimeouts and timers the pending
\* connect timeouts and reconnect timers, promises[i] the promise of the
\* connect() that created socket i (none | pending | resolved | rejected),
\* asked the sockets on which a start_conversation is unanswered, manualSocks
\* (history) the sockets disconnect() called close() on
NewConn(max) ==
  [connectionStatus |-> "disconnected",
   ws |-> 0,
   socks |-> [i \in 1..MaxSockets |-> "none"],
   connectTimeouts |-> {},
   reconnectAttempts |-> 0,
   reconnectTimer |-> 0,
   timers |-> {},
   isManualDisconnect |-> FALSE,
   maxReconnectAttempts |-> max,
   promises |-> [i \in 1..MaxSockets |-> "none"],
   asked |-> {},
   manualSocks |-> {}]

ConnIdle ==
  /\ conn = NewConn(DefaultMaxReconnectAttempts)
  /\ connLog = <<>>

\* a TTSServerSDK with no client: clients is the registry, created the number
\* of client ids generated, stopCall the latest stop() (none | noop |
\* closingWss | closingServer | resolved), handlers the calls of
\* handleClientMessage, out the events written to the clients' sockets
NewHub ==
  [clients |-> {}, created |-> 0, stopCall |-> "none", handlers |-> <<>>, out |-> <<>>,
   kimiClient |-> TRUE]

HubIdle == hub = NewHub

CodecIdle ==
  /\ frame = <<>>
  /\ wire = <<>>
  /\ decoded = <<>>
  /\ codecPc = "idle"

\* a client connection on which no conversation has started
ConvInit ==
  /\ pc = "idle"
  /\ reader = "none"
  /\ writer = "none"
  /\ sock = "none"
  /\ proc = NewProcessor
  /\ fullAIResponse = <<>>
  /\ sent = <<>>
  /\ events = <<>>
  /\ rcvd = <<>>
  /\ chunks = <<>>

Init == ConvInit /\ ServerUp /\ TsIdle /\ ClientNew /\ CodecIdle /\ ConnIdle /\ HubIdle

\* handleStartConversation up to the first await of processConversation
StartConversation ==
  /\ pc = "idle"
  /\ \E kimi \in BOOLEAN, userMessage \in {"", "hi"} :
       IF ~kimi
       THEN /\ events' = sendErrorToClient(events, "ai_not_configured")
            /\ pc' = "returned"
       ELSE IF userMessage = ""
       THEN /\ events' = sendErrorToClient(events, "bad_parameter")
            /\ pc' = "returned"
       ELSE /\ events' = sendToClient(events, <<[type |-> "conversation_started"]>>)
            /\ pc' = "create"
  /\ UNCHANGED <<reader, writer, sock, proc, fullAIResponse, sent, rcvd, chunks>>
  /\ UNCHANGED otherVars

\* catch of handleStartConversation: whatever processConversation throws is
\* reported to the client once; nothing else is done (no close, no cancel).
catchConversation(l) == sendErrorToClient(l, "conversation_failed")

\* kimiClient.chat.completions.create resolves; initWebScoketInstance
\* checks the configuration and creates the socket, then awaits 'open'.
CreateDone ==
  /\ pc = "create"
  /\ pc' = "wsOpen"
  /\ sock' = "connecting"
  /\ UNCHANGED <<reader, writer, proc, fullAIResponse, sent, events, rcvd, chunks>>
  /\ UNCHANGED otherVars

CreateFail ==
  /\ pc = "create"
  /\ pc' = "failed"
  /\ events' = catchConversation(events)
  /\ UNCHANGED <<reader, writer, sock, proc, fullAIResponse, sent, rcvd, chunks>>
  /\ UNCHANGED otherVars

\* 'open': StartConnection(ws) is sent, then WaitForEvent(ConnectionStarted)
WsOpened ==
  /\ pc = "wsOpen"
  /\ sock' = "open"
  /\ sent' = Append(sent, Out("StartConnection", <<>>))
  /\ pc' = "handshake"
  /\ UNCHANGED <<reader, writer, proc, fullAIResponse, events, rcvd, chunks>>
  /\ UNCHANGED otherVars

\* 'error' before 'open': the promise of lines 46-49 rejects; the
\* connection was never established
WsError ==
  /\ pc = "wsOpen"
  /\ sock' = "closed"
  /\ pc' = "failed"
  /\ events' = catchConversation(events)
  /\ UNCHANGED <<reader, writer, proc, fullAIResponse, sent, rcvd, chunks>>
  /\ UNCHANGED otherVars

\* WaitForEvent(ws, type, event) of core/protocols: takes the next frame of
\* the socket and returns it when it is the awaited acknowledgment; it
\* rejects on any other frame, on a socket error, and when the frame has not
\* arrived within the bounded interval.  TRUE when it returns.
WaitForEvent(expected, got) == got = expected

\* what can happen while WaitForEvent is pending
WaitOutcomes == {"ConnectionStarted", "ConnectionFinished", "SessionStarted", "timeout", "error"}

\* WaitForEvent returns the ConnectionStarted frame; initWebScoketInstance
\* returns and startSession sends the StartSession frame.
HandshakeAck ==
  /\ pc = "handshake"
  /\ \E got \in WaitOutcomes : WaitForEvent("ConnectionStarted", got)
  /\ rcvd' = Append(rcvd, Frame("ConnectionStarted", Undef, NoPayload))
  /\ sent' = Append(sent, Out("StartSession", <<>>))
  /\ pc' = "startSession"
  /\ UNCHANGED <<reader, writer, sock, proc, fullAIResponse, events, chunks>>
  /\ UNCHANGED otherVars

\* StartConnection or WaitForEvent rejects.  initWebScoketInstance has no
\* handler of its own: the rejection leaves it without touching the socket.
HandshakeFail ==
  /\ pc = "handshake"
  /\ \E got \in WaitOutcomes : ~WaitForEvent("ConnectionStarted", got)
  /\ pc' = "failed"
  /\ events' = catchConversation(events)
  /\ UNCHANGED <<reader, writer, sock, proc, fullAIResponse, sent, rcvd, chunks>>
  /\ UNCHANGED otherVars

\* StartSession resolved; startSession returns; processConversation creates
\* the processor and starts both promise executors, each running up to its
\* first await, then awaits Promise.all.
SessionStarted ==
  /\ pc = "startSession"
  /\ proc' = NewProcessor
  /\ reader' = "running"
  /\ writer' = "running"
  /\ fullAIResponse' = <<>>
  /\ pc' = "join"
  /\ UNCHANGED <<sock, sent, events, rcvd, chunks>>
  /\ UNCHANGED otherVars

SessionStartFail ==
  /\ pc = "startSession"
  /\ pc' = "failed"
  /\ events' = catchConversation(events)
  /\ UNCHANGED <<reader, writer, sock, proc, fullAIResponse, sent, rcvd, chunks>>
  /\ UNCHANGED otherVars

\* One iteration of the reader loop: the switch on msg.event.
dispatch(p, msg, fb) ==
  CASE msg.event = "TTSSentenceStart" -> handleSentenceStart(p, msg, fb)
    [] msg.event = "TTSResponse" -> handleAudioResponse(p, msg)
    [] msg.event = "TTSSentenceEnd" -> handleSentenceEnd(p, msg)
    [] OTHER -> [proc |-> p, out |-> <<>>]

\* variant of readerAfter: a frame of an unknown kind fails the loop
readerAfter_strict(msg) ==
  IF msg.event = "TTSEnded" THEN "resolved"
  ELSE IF msg.event \in {"TTSSentenceStart", "TTSResponse", "TTSSentenceEnd"} THEN "running"
  ELSE "rejected"

\* reader state after a frame: TTSEnded resolves the promise and returns
readerAfter(msg) == IF msg.event = "TTSEnded" THEN "resolved" ELSE "running"

\* frames of the session received by the reader loop so far
SessionFrames == SelectSeq(rcvd, LAMBDA m : m.event # "ConnectionStarted" /\ m.event # "ConnectionFinished")

ReaderReceive ==
  /\ reader = "running"
  /\ Len(SessionFrames) < MaxFrames
  /\ \E msg \in InFrames, fb \in FallbackIds :
       LET r == dispatch(proc, msg, fb)
       IN /\ proc' = r.proc
          /\ events' = sendToClient(events, r.out)
          /\ rcvd' = Append(rcvd, msg)
          /\ reader' = readerAfter(msg)
  /\ UNCHANGED <<pc, writer, sock, fullAIResponse, sent, chunks>>
  /\ UNCHANGED otherVars

\* variant of ReaderFail: the catch also reports through callbacks.onError
ReaderFail_reports ==
  /\ reader = "running"
  /\ reader' = "rejected"
  /\ events' = sendErrorToClient(events, "processing_error")
  /\ UNCHANGED <<pc, writer, sock, proc, fullAIResponse, sent, rcvd, chunks>>
  /\ UNCHANGED otherVars

\* session.receive() rejects (socket error or undecodable frame): the catch
\* of the executor rejects audioProcessPromise and does nothing else
ReaderFail ==
  /\ reader = "running"
  /\ reader' = "rejected"
  /\ UNCHANGED <<pc, writer, sock, proc, fullAIResponse, sent, events, rcvd, chunks>>
  /\ UNCHANGED otherVars

\* session.send(text): one TaskRequest frame carrying the text
send(text) == <<Out("TaskRequest", text)>>

\* variant of WriterChunk: every increment is submitted as it arrives
WriterChunk_incremental ==
  /\ writer = "running"
  /\ Len(chunks) < MaxChunks
  /\ \E content \in Contents(Len(chunks) + 1) :
       /\ chunks' = Append(chunks, content)
       /\ IF content # <<>>
          THEN LET r == handleTextChunk(proc, content)
               IN /\ fullAIResponse' = fullAIResponse \o content
                  /\ proc' = r.proc
                  /\ events' = sendToClient(events, r.out)
                  /\ sent' = sent \o send(content)
          ELSE UNCHANGED <<fullAIResponse, proc, events, sent>>
  /\ UNCHANGED <<pc, reader, writer, sock, rcvd>>
  /\ UNCHANGED otherVars

\* One iteration of `for await (const chunk of completion)`
WriterChunk ==
  /\ writer = "running"
  /\ Len(chunks) < MaxChunks
  /\ \E content \in Contents(Len(chunks) + 1) :
       /\ chunks' = Append(chunks, content)
       /\ IF content # <<>>
          THEN LET r == handleTextChunk(proc, content)
               IN /\ fullAIResponse' = fullAIResponse \o content
                  /\ proc' = r.proc
                  /\ events' = sendToClient(events, r.out)
          ELSE UNCHANGED <<fullAIResponse, proc, events>>
  /\ UNCHANGED <<pc, reader, writer, sock, sent, rcvd>>
  /\ UNCHANGED otherVars

\* The stream is exhausted: session.send(fullAIResponse) is called.
WriterStreamEnd ==
  /\ writer = "running"
  /\ sent' = sent \o send(fullAIResponse)
  /\ writer' = "sending"
  /\ UNCHANGED <<pc, reader, sock, proc, fullAIResponse, events, rcvd, chunks>>
  /\ UNCHANGED otherVars

\* The stream throws while being iterated
WriterStreamFail ==
  /\ writer = "running"
  /\ writer' = "rejected"
  /\ UNCHANGED <<pc, reader, sock, proc, fullAIResponse, sent, events, rcvd, chunks>>
  /\ UNCHANGED otherVars

\* session.send resolved: fullText is set and chat_complete is emitted
WriterSendDone ==
  /\ writer = "sending"
  /\ LET p == [proc EXCEPT !.fullText = fullAIResponse]
         r == handleChatComplete(p)
     IN /\ proc' = r.proc
        /\ events' = sendToClient(events, r.out)
  /\ writer' = "resolved"
  /\ UNCHANGED <<pc, reader, sock, fullAIResponse, sent, rcvd, chunks>>
  /\ UNCHANGED otherVars

\* session.send rejects
WriterSendFail ==
  /\ writer = "sending"
  /\ writer' = "rejected"
  /\ UNCHANGED <<pc, reader, sock, proc, fullAIResponse, sent, events, rcvd, chunks>>
  /\ UNCHANGED otherVars

\* variant of joinReady: only the reader is awaited
joinReady_readerOnly(w, r) == r = "resolved"

\* variant of joinReady: the first promise to be fulfilled ends the wait
joinReady_either(w, r) == w = "resolved" \/ r = "resolved"

\* Promise.all([chatProcessPromise, audioProcessPromise]) is fulfilled
joinReady(w, r) == w = "resolved" /\ r = "resolved"

\* variant of Join: session.finished() is called without awaiting the promises
Join_noAwait ==
  /\ pc = "join"
  /\ sent' = Append(sent, Out("FinishSession", <<>>))
  /\ pc' = "finSession"
  /\ UNCHANGED <<reader, writer, sock, proc, fullAIResponse, events, rcvd, chunks>>
  /\ UNCHANGED otherVars

\* variant of Join: finished() goes straight to FinishConnection
Join_skipFinishSession ==
  /\ pc = "join"
  /\ joinReady(writer, reader)
  /\ sent' = Append(sent, Out("FinishConnection", <<>>))
  /\ pc' = "finConn"
  /\ UNCHANGED <<reader, writer, sock, proc, fullAIResponse, events, rcvd, chunks>>
  /\ UNCHANGED otherVars

\* Promise.all fulfilled: session.finished() starts with FinishSession
Join ==
  /\ pc = "join"
  /\ joinReady(writer, reader)
  /\ sent' = Append(sent, Out("FinishSession", <<>>))
  /\ pc' = "finSession"
  /\ UNCHANGED <<reader, writer, sock, proc, fullAIResponse, events, rcvd, chunks>>
  /\ UNCHANGED otherVars

\* Promise.all rejects as soon as one of the two promises rejects
JoinReject ==
  /\ pc = "join"
  /\ (writer = "rejected" \/ reader = "rejected")
  /\ pc' = "failed"
  /\ events' = catchConversation(events)
  /\ UNCHANGED <<reader, writer, sock, proc, fullAIResponse, sent, rcvd, chunks>>
  /\ UNCHANGED otherVars

\* finished(): FinishSession resolved, FinishConnection is sent
FinishSessionDone ==
  /\ pc = "finSession"
  /\ sent' = Append(sent, Out("FinishConnection", <<>>))
  /\ pc' = "finConn"
  /\ UNCHANGED <<reader, writer, sock, proc, fullAIResponse, events, rcvd, chunks>>
  /\ UNCHANGED otherVars

\* variant of FinishConnectionDone: ws.close() is called before the wait
FinishConnectionDone_closeEarly ==
  /\ pc = "finConn"
  /\ pc' = "waitFin"
  /\ sock' = "closed"
  /\ UNCHANGED <<reader, writer, proc, fullAIResponse, sent, events, rcvd, chunks>>
  /\ UNCHANGED otherVars

\* finished(): FinishConnection resolved, WaitForEvent(ConnectionFinished)
FinishConnectionDone ==
  /\ pc = "finConn"
  /\ pc' = "waitFin"
  /\ UNCHANGED <<reader, writer, sock, proc, fullAIResponse, sent, events, rcvd, chunks>>
  /\ UNCHANGED otherVars

\* finished(): the ConnectionFinished frame arrives, then ws.close()
FinishAck ==
  /\ pc = "waitFin"
  /\ \E got \in WaitOutcomes : WaitForEvent("ConnectionFinished", got)
  /\ rcvd' = Append(rcvd, Frame("ConnectionFinished", Undef, NoPayload))
  /\ sock' = "closed"
  /\ pc' = "done"
  /\ UNCHANGED <<reader, writer, proc, fullAIResponse, sent, events, chunks>>
  /\ UNCHANGED otherVars

\* finished(): a send or the wait rejects; ws.close() is not reached
FinishFail ==
  /\ pc \in {"finSession", "finConn", "waitFin"}
  /\ pc = "waitFin" => \E got \in WaitOutcomes : ~WaitForEvent("ConnectionFinished", got)
  /\ pc' = "failed"
  /\ events' = catchConversation(events)
  /\ UNCHANGED <<reader, writer, sock, proc, fullAIResponse, sent, rcvd, chunks>>
  /\ UNCHANGED otherVars

Next ==
  \/ StartConversation
  \/ CreateDone
  \/ CreateFail
  \/ WsOpened
  \/ WsError
  \/ HandshakeAck
  \/ HandshakeFail
  \/ SessionStarted
  \/ SessionStartFail
  \/ ReaderReceive
  \/ ReaderFail
  \/ WriterChunk
  \/ WriterStreamEnd
  \/ WriterStreamFail
  \/ WriterSendDone
  \/ WriterSendFail
  \/ Join
  \/ JoinReject
  \/ FinishSessionDone
  \/ FinishConnectionDone
  \/ FinishAck
  \/ FinishFail

Spec == Init /\ [][Next]_vars

\* =========================================================================
\* A processor on its own: any frame may be handed to its handlers
\* =========================================================================
\* a sentence-start payload {"text": t}
TextPayload(t) == [ObjPayload(Undef) EXCEPT !.text = t]

\* an audio payload of n bytes
AudioPayload(n) == [BadPayload EXCEPT !.len = n]

\* a sentence-end payload {"words": ws, "text": t}
WordsPayload(ws, t) == [ObjPayload(Undef) EXCEPT !.hasWords = TRUE, !.words = ws, !.text = t]

\* the sentence of the scenario: two characters and a full stop, spoken as
\* one word from 0 s to 0.6 s
ScenarioText == <<"n", "h", ".">>
ScenarioWords == <<[word |-> <<"n", "h">>, startTime |-> 0, endTime |-> 600]>>

\* the explicit timestamps of the scenario's first two characters, under the
\* snake_case names and under the camelCase names
ScenarioStamps == <<Stamp("n", 0, 300), Stamp("h", 300, 600)>>

SnakeStamp(t) ==
  [char |-> t.char, character |-> "", start_time |-> t.startTime, startTime |-> 0,
   end_time |-> t.endTime, endTime |-> 0]

CamelStamp(t) ==
  [char |-> "", character |-> t.char, start_time |-> 0, startTime |-> t.startTime,
   end_time |-> 0, endTime |-> t.endTime]

\* a sentence-end payload {"timestamps": [...]} under either naming
\* convention, with total the supplied total (0 for none)
SnakePayload(total) ==
  [ObjPayload(Undef) EXCEPT !.hasTimestamps = TRUE,
                            !.timestamps = [i \in DOMAIN ScenarioStamps |-> SnakeStamp(ScenarioStamps[i])],
                            !.total_duration = total]

CamelPayload(total) ==
  [ObjPayload(Undef) EXCEPT !.hasTimestamps = TRUE,
                            !.timestamps = [i \in DOMAIN ScenarioStamps |-> CamelStamp(ScenarioStamps[i])],
                            !.totalDuration = total]

\* the total a sentence-end payload supplies
SuppliedTotal == 900

\* the duration a sentence-end payload supplies
SuppliedDuration == 600

\* sentence-start frames: the id in the sequence field, in the payload, in
\* both or in neither, and an id of 0
StartFrames ==
  {Frame("TTSSentenceStart", 1, TextPayload(ScenarioText)),
   Frame("TTSSentenceStart", 2, NoPayload),
   Frame("TTSSentenceStart", 1, ObjPayload(5)),
   Frame("TTSSentenceStart", Undef, ObjPayload(5)),
   Frame("TTSSentenceStart", Undef, ObjPayload(Undef)),
   Frame("TTSSentenceStart", Undef, BadPayload),
   Frame("TTSSentenceStart", Undef, NoPayload),
   Frame("TTSSentenceStart", 0, NoPayload),
   Frame("TTSSentenceStart", Undef, ObjPayload(0))}

\* sentence-end frames: each kind of timestamp data alone and together
EndFrames ==
  {Frame("TTSSentenceEnd", Undef, WordsPayload(ScenarioWords, ScenarioText)),
   Frame("TTSSentenceEnd", Undef, NoPayload),
   Frame("TTSSentenceEnd", Undef, BadPayload),
   Frame("TTSSentenceEnd", Undef, SnakePayload(0)),
   Frame("TTSSentenceEnd", Undef, CamelPayload(0)),
   Frame("TTSSentenceEnd", Undef, SnakePayload(SuppliedTotal)),
   Frame("TTSSentenceEnd", Undef, CamelPayload(SuppliedTotal)),
   Frame("TTSSentenceEnd", Undef,
         [SnakePayload(0) EXCEPT !.hasWords = TRUE, !.words = ScenarioWords, !.text = ScenarioText]),
   Frame("TTSSentenceEnd", Undef, [SnakePayload(0) EXCEPT !.text = ScenarioText]),
   Frame("TTSSentenceEnd", Undef,
         [ObjPayload(Undef) EXCEPT !.text = <<"n", "h">>, !.duration = SuppliedDuration]),
   Frame("TTSSentenceEnd", Undef, [ObjPayload(Undef) EXCEPT !.duration = SuppliedDuration]),
   Frame("TTSSentenceEnd", Undef, ObjPayload(Undef))}

ProcFrames ==
  StartFrames
    \cup EndFrames
    \cup {Frame("TTSResponse", Undef, AudioPayload(100)),
          Frame("TTSResponse", Undef, NoPayload),
          Frame("SessionStarted", Undef, NoPayload)}

ProcessorStep ==
  /\ Len(rcvd) < MaxProcFrames
  /\ \E msg \in ProcFrames, fb \in FallbackIds :
       LET r == dispatch(proc, msg, fb)
       IN /\ proc' = r.proc
          /\ events' = sendToClient(events, r.out)
          /\ rcvd' = Append(rcvd, msg)
  /\ UNCHANGED <<pc, reader, writer, sock, fullAIResponse, sent, chunks>>
  /\ UNCHANGED otherVars

ProcNext == ProcessorStep

ProcSpec == Init /\ [][ProcNext]_vars

\* =========================================================================
\* The timestamp functions applied to bounded inputs
\* =========================================================================
TextChars == {"a", ".", " "}

RECURSIVE SeqsUpTo(_, _)
SeqsUpTo(S, n) ==
  IF n = 0 THEN {<<>>}
  ELSE LET shorter == SeqsUpTo(S, n - 1)
       IN shorter \cup {Append(q, x) : q \in {r \in shorter : Len(r) = n - 1}, x \in S}

Texts == SeqsUpTo(TextChars, MaxTextLen)

\* word.word: a word, two characters, a word with its punctuation, blank
WordTexts == {<<"a">>, <<"a", "a">>, <<"a", ".">>, <<" ">>}

\* word.startTime and word.endTime, in thousandths of a second
Times == {0, 300, 600}

Words == [word : WordTexts, startTime : Times, endTime : Times]

\* words as a recogniser reports them: no word ends before it starts and no
\* word starts before the previous one ended
WellTimed(ws) ==
  /\ \A i \in DOMAIN ws : ws[i].startTime <= ws[i].endTime
  /\ \A i \in DOMAIN ws : i > 1 => ws[i - 1].endTime <= ws[i].startTime

WordLists == {ws \in SeqsUpTo(Words, MaxWords) : WellTimed(ws)}

\* parsed.duration of a sentence-end payload
Durations == {600, 2000}

TsInit ==
  /\ tsIn \in [text : Texts, words : WordLists]
  /\ tsOut = <<>>
  /\ tsPc = "idle"
  /\ ConvInit /\ ServerUp /\ ClientNew /\ CodecIdle /\ ConnIdle /\ HubIdle

\* extractTimestampInfo on a payload with a words array
ConvertWords ==
  /\ tsPc = "idle"
  /\ tsOut' = wordsTimestampInfo(tsIn.words, tsIn.text)
  /\ tsPc' = "converted"
  /\ UNCHANGED tsIn
  /\ UNCHANGED tsRest

\* extractTimestampInfo on a payload with a text and no words array
Estimate ==
  /\ tsPc = "idle"
  /\ \E D \in Durations : tsOut' = generateEstimatedTimestamps(tsIn.text, D)
  /\ tsPc' = "estimated"
  /\ UNCHANGED tsIn
  /\ UNCHANGED tsRest

TsNext ==
  \/ ConvertWords
  \/ Estimate

TsSpec == TsInit /\ [][TsNext]_vars

\* =========================================================================
\* The client: TTSClientSDK handling the events of one conversation
\* =========================================================================
SentenceIds == {1, 2}

\* event.data.audioData as it arrives: an array of byte values
AudioDatas == {<<>>, <<1>>, <<2, 255>>}

\* audioTimestamps and totalAudioDuration of a sentence_complete event
CompleteInfos ==
  {[audioTimestamps |-> <<>>, totalAudioDuration |-> 0],
   [audioTimestamps |-> <<Stamp("a", 0, 100)>>, totalAudioDuration |-> 100]}

\* new Uint8Array(array): every element modulo 256
toUint8Array(a) == [i \in DOMAIN a |-> a[i] % 256]

\* Map.set
MapSet(map, key, value) ==
  [k \in DOMAIN map \cup {key} |-> IF k = key THEN value ELSE map[k]]

\* TypedArray.set(data, offset)
SetAt(buf, data, offset) ==
  [i \in DOMAIN buf |->
     IF i > offset /\ i <= offset + Len(data) THEN data[i - offset] ELSE buf[i]]

RECURSIVE totalLength(_)
totalLength(audioChunks) ==
  IF audioChunks = <<>> THEN 0
  ELSE Len(Head(audioChunks).data) + totalLength(Tail(audioChunks))

\* variant of mergeLoop: the offset is not advanced
RECURSIVE mergeLoop_noOffset(_, _, _)
mergeLoop_noOffset(buf, audioChunks, offset) ==
  IF audioChunks = <<>> THEN buf
  ELSE mergeLoop_noOffset(SetAt(buf, Head(audioChunks).data, offset), Tail(audioChunks), offset)

\* the loop of getMergedAudio: each chunk is copied at the running offset
RECURSIVE mergeLoop(_, _, _)
mergeLoop(buf, audioChunks, offset) ==
  IF audioChunks = <<>> THEN buf
  ELSE mergeLoop(SetAt(buf, Head(audioChunks).data, offset), Tail(audioChunks),
                 offset + Len(Head(audioChunks).data))

\* getMergedAudio: isNull for the null result, else the merged bytes
getMergedAudio(sentenceId) ==
  IF sentenceId \notin DOMAIN sentences \/ sentences[sentenceId].audioChunks = <<>>
  THEN [isNull |-> TRUE, bytes |-> <<>>]
  ELSE LET audioChunks == sentences[sentenceId].audioChunks
       IN [isNull |-> FALSE,
           bytes |-> mergeLoop([i \in 1..totalLength(audioChunks) |-> 0], audioChunks, 0)]

ClientInit == ClientNew /\ ConvInit /\ ServerUp /\ TsIdle /\ CodecIdle /\ ConnIdle /\ HubIdle

\* handleSentenceStart: a new sentence object is stored under the id
ClientSentenceStart ==
  /\ Len(clientLog) < MaxClientEvents
  /\ \E sentenceId \in SentenceIds :
       /\ sentences' = MapSet(sentences, sentenceId,
                              [id |-> sentenceId, audioChunks |-> <<>>, status |-> "pending",
                               audioTimestamps |-> <<>>, totalAudioDuration |-> 0])
       /\ clientLog' = Append(clientLog, [type |-> "sentence_start", sentenceId |-> sentenceId])
  /\ stats' = [stats EXCEPT !.totalSentences = @ + 1]
  /\ UNCHANGED clientRest

\* handleAudioChunk: the chunk is appended when the sentence is known
ClientAudioChunk ==
  /\ Len(clientLog) < MaxClientEvents
  /\ \E sentenceId \in SentenceIds, chunkIndex \in {0, 1}, audioData \in AudioDatas :
       /\ IF sentenceId \in DOMAIN sentences
          THEN /\ sentences' =
                    [sentences EXCEPT
                       ![sentenceId].audioChunks =
                          Append(@, [index |-> chunkIndex, data |-> toUint8Array(audioData)]),
                       ![sentenceId].status = "collecting"]
               /\ stats' = [stats EXCEPT !.totalChunks = @ + 1]
          ELSE UNCHANGED <<sentences, stats>>
       /\ clientLog' = Append(clientLog,
                              [type |-> "audio_chunk", sentenceId |-> sentenceId,
                               chunkIndex |-> chunkIndex, audioData |-> audioData])
  /\ UNCHANGED clientRest

\* handleSentenceComplete: the sentence, when known, is marked completed and
\* takes the timestamps of the event
ClientSentenceComplete ==
  /\ Len(clientLog) < MaxClientEvents
  /\ \E sentenceId \in SentenceIds, info \in CompleteInfos :
       /\ IF sentenceId \in DOMAIN sentences
          THEN /\ sentences' =
                    [sentences EXCEPT
                       ![sentenceId].status = "completed",
                       ![sentenceId].audioTimestamps = info.audioTimestamps,
                       ![sentenceId].totalAudioDuration = info.totalAudioDuration]
               /\ stats' = [stats EXCEPT !.completedSentences = @ + 1]
          ELSE UNCHANGED <<sentences, stats>>
       /\ clientLog' = Append(clientLog,
                              [type |-> "sentence_complete", sentenceId |-> sentenceId,
                               audioTimestamps |-> info.audioTimestamps,
                               totalAudioDuration |-> info.totalAudioDuration])
  /\ UNCHANGED clientRest

ClientNext ==
  \/ ClientSentenceStart
  \/ ClientAudioChunk
  \/ ClientSentenceComplete

ClientSpec == ClientInit /\ [][ClientNext]_vars

\* =========================================================================
\* The frame codec (core/protocols), modelled from its contract: a frame is
\* written as its event kind, a flag telling whether a sequence number
\* follows, the sequence number, the declared payload length and the payload
\* =========================================================================
\* the event kinds of the frames the session exchanges, in a fixed order
Kinds ==
  <<"StartConnection", "StartSession", "TaskRequest", "TTSSentenceStart",
    "TTSResponse", "TTSSentenceEnd", "TTSEnded">>

KindCode(kind) == CHOOSE i \in DOMAIN Kinds : Kinds[i] = kind

ProtocolError == [ok |-> FALSE, event |-> "ProtocolError", sequence |-> Undef, payload |-> <<>>]

\* variant of encode: a sequence number of 0 is written like an absent one
encode_falsySequence(kind, seq, payload) ==
  <<KindCode(kind)>>
    \o (IF seq = Undef \/ seq = 0 THEN <<0>> ELSE <<1, seq>>)
    \o <<Len(payload)>> \o payload

encode(kind, seq, payload) ==
  <<KindCode(kind)>>
    \o (IF seq = Undef THEN <<0>> ELSE <<1, seq>>)
    \o <<Len(payload)>> \o payload

\* decode fails on truncated input, on an unknown event kind and on a
\* declared payload length that differs from the bytes available
decode(bytes) ==
  IF Len(bytes) < 3 \/ bytes[1] \notin DOMAIN Kinds \/ bytes[2] \notin {0, 1}
  THEN ProtocolError
  ELSE LET hasSeq == bytes[2] = 1
           at == IF hasSeq THEN 4 ELSE 3
       IN IF Len(bytes) < at \/ bytes[at] # Len(bytes) - at
          THEN ProtocolError
          ELSE [ok |-> TRUE, event |-> Kinds[bytes[1]],
                sequence |-> IF hasSeq THEN bytes[3] ELSE Undef,
                payload |-> SubSeq(bytes, at + 1, Len(bytes))]

PayloadBytes == {0, 255}

\* the valid frames handed to the codec
ValidFrames ==
  [event : {"StartSession", "TTSSentenceStart", "TTSResponse"},
   sequence : {Undef, 0, 1},
   payload : SeqsUpTo(PayloadBytes, MaxPayloadLen)]

CodecInit ==
  /\ frame \in ValidFrames
  /\ wire = <<>>
  /\ decoded = <<>>
  /\ codecPc = "idle"
  /\ ConvInit /\ ServerUp /\ TsIdle /\ ClientNew /\ ConnIdle /\ HubIdle

\* the sender encodes the frame
Encode ==
  /\ codecPc = "idle"
  /\ wire' = encode(frame.event, frame.sequence, frame.payload)
  /\ codecPc' = "encoded"
  /\ UNCHANGED <<frame, decoded>>
  /\ UNCHANGED codecRest

\* the bytes are cut short on the way
Cut ==
  /\ codecPc = "encoded"
  /\ \E n \in 0..(Len(wire) - 1) : wire' = SubSeq(wire, 1, n)
  /\ codecPc' = "cut"
  /\ UNCHANGED <<frame, decoded>>
  /\ UNCHANGED codecRest

\* the receiver decodes what arrived
Decode ==
  /\ codecPc \in {"encoded", "cut"}
  /\ decoded' = decode(wire)
  /\ codecPc' = IF codecPc = "encoded" THEN "decoded" ELSE "decodedCut"
  /\ UNCHANGED <<frame, wire>>
  /\ UNCHANGED codecRest

CodecNext ==
  \/ Encode
  \/ Cut
  \/ Decode

CodecSpec == CodecInit /\ [][CodecNext]_vars

\* =========================================================================
\* The client's connection: connect, disconnect, the socket's events, the
\* connect timeout and the reconnect timer. A socket is none, connecting,
\* open, aborted (close() was called before it opened: its error and close
\* events are due), closing (close() was called while open: its close event
\* is due), failed (its error event fired, its close event follows in the
\* same task) or closed. Every handler runs to completion; the timers fire
\* in any order.
\* =========================================================================
MaxAttemptChoices == {0, 1, 2}

\* the sockets created so far are 1..Created(c)
Created(c) == Cardinality({i \in 1..MaxSockets : c.socks[i] # "none"})

\* ws.close(): an open socket starts closing, a connecting one is failed
closeSocket(socks, id) ==
  IF id # 0 /\ socks[id] = "open" THEN [socks EXCEPT ![id] = "closing"]
  ELSE IF id # 0 /\ socks[id] = "connecting" THEN [socks EXCEPT ![id] = "aborted"]
  ELSE socks

\* a socket's error event fired and its close event, which follows in the
\* same task, has not: only what a handler or a promise reaction calls
\* (connect, disconnect) can run in between
InTask(c) == \E i \in 1..MaxSockets : c.socks[i] = "failed"

\* resolve or reject of the promise of socket i: a settled promise stays
settle(promises, i, how) ==
  IF promises[i] = "pending" THEN [promises EXCEPT ![i] = how] ELSE promises

\* connect() past its status check: socket id is created, its connect
\* timeout is armed
connect(c, id) ==
  [c EXCEPT !.isManualDisconnect = FALSE,
            !.connectionStatus = "connecting",
            !.ws = id,
            !.socks[id] = "connecting",
            !.connectTimeouts = @ \cup {id},
            !.promises[id] = "pending"]

\* variant of attemptReconnect: the attempt limit is not looked at
attemptReconnect_unlimited(c, t) ==
  IF c.isManualDisconnect
  THEN c
  ELSE [c EXCEPT !.reconnectAttempts = @ + 1,
                 !.reconnectTimer = t,
                 !.timers = @ \cup {t}]

\* attemptReconnect(), t the id of the timer it sets
attemptReconnect(c, t) ==
  IF c.isManualDisconnect \/ c.reconnectAttempts >= c.maxReconnectAttempts
  THEN c
  ELSE [c EXCEPT !.reconnectAttempts = @ + 1,
                 !.reconnectTimer = t,
                 !.timers = @ \cup {t}]

\* ws.onclose of socket i
onclose(c, i) ==
  LET d == [c EXCEPT !.connectTimeouts = @ \ {i},
                     !.connectionStatus = "disconnected"]
  IN IF ~d.isManualDisconnect /\ d.maxReconnectAttempts > 0
     THEN attemptReconnect(d, i)
     ELSE d

ConnInit ==
  /\ \E max \in MaxAttemptChoices : conn = NewConn(max)
  /\ connLog = <<>>
  /\ ConvInit /\ ServerUp /\ TsIdle /\ ClientNew /\ CodecIdle /\ HubIdle

\* the application calls connect(); while connected or connecting the call
\* throws and changes nothing
Connect ==
  /\ conn.connectionStatus \notin {"connected", "connecting"}
  /\ Created(conn) < MaxSockets
  /\ conn' = connect(conn, Created(conn) + 1)
  /\ UNCHANGED connLog
  /\ UNCHANGED connRest

\* ws.onopen of socket i
SocketOpen(i) ==
  /\ conn.socks[i] = "connecting"
  /\ ~InTask(conn)
  /\ conn' = [conn EXCEPT !.socks[i] = "open",
                          !.connectTimeouts = @ \ {i},
                          !.connectionStatus = "connected",
                          !.reconnectAttempts = 0,
                          !.promises = settle(@, i, "resolved")]
  /\ connLog' = Append(connLog, "open")
  /\ UNCHANGED connRest

\* ws.onerror of socket i; the socket's close event follows
SocketError(i) ==
  /\ conn.socks[i] \in {"connecting", "open", "aborted"}
  /\ ~InTask(conn)
  /\ conn' = [conn EXCEPT !.socks[i] = "failed",
                          !.connectTimeouts = @ \ {i},
                          !.connectionStatus = "error",
                          !.promises = settle(@, i, "rejected")]
  /\ UNCHANGED connLog
  /\ UNCHANGED connRest

\* the close event of socket i: the server closed it, it failed, or close()
\* was called on it
SocketClose(i) ==
  /\ \/ conn.socks[i] = "failed"
     \/ conn.socks[i] \in {"open", "closing"} /\ ~InTask(conn)
  /\ conn' = onclose([conn EXCEPT !.socks[i] = "closed", !.asked = @ \ {i}], i)
  /\ connLog' = IF conn'.timers # conn.timers THEN Append(connLog, "schedule") ELSE connLog
  /\ UNCHANGED connRest

\* the connect timeout armed by the connect() that created socket i fires
ConnectTimeout(i) ==
  /\ i \in conn.connectTimeouts
  /\ ~InTask(conn)
  /\ conn' = IF conn.connectionStatus = "connecting"
             THEN [conn EXCEPT !.connectTimeouts = @ \ {i},
                               !.socks = closeSocket(@, conn.ws),
                               !.connectionStatus = "error"]
             ELSE [conn EXCEPT !.connectTimeouts = @ \ {i}]
  /\ UNCHANGED connLog
  /\ UNCHANGED connRest

\* reconnect timer t fires: connect() is called and what it throws is caught
ReconnectTimer(t) ==
  /\ t \in conn.timers
  /\ ~InTask(conn)
  /\ \/ conn.connectionStatus \in {"connected", "connecting"}
     \/ Created(conn) < MaxSockets
  /\ conn' = IF conn.connectionStatus \in {"connected", "connecting"}
             THEN [conn EXCEPT !.timers = @ \ {t}]
             ELSE connect([conn EXCEPT !.timers = @ \ {t}], Created(conn) + 1)
  /\ UNCHANGED connLog
  /\ UNCHANGED connRest

\* the application calls disconnect()
Disconnect ==
  /\ conn' = [conn EXCEPT !.isManualDisconnect = TRUE,
                          !.timers = @ \ {conn.reconnectTimer},
                          !.reconnectTimer = 0,
                          !.socks = closeSocket(@, conn.ws),
                          !.manualSocks = IF conn.ws # 0 THEN @ \cup {conn.ws} ELSE @,
                          !.ws = 0,
                          !.connectionStatus = "disconnected"]
  /\ UNCHANGED connLog
  /\ UNCHANGED connRest

\* the application calls startConversation(): the status is set before
\* sendMessage, which sends on an open this.ws and throws otherwise
ClientStartConversation ==
  /\ conn.connectionStatus = "connected"
  /\ conn' = [conn EXCEPT !.connectionStatus = "processing",
                          !.asked = IF conn.ws # 0 /\ conn.socks[conn.ws] = "open"
                                    THEN @ \cup {conn.ws} ELSE @]
  /\ UNCHANGED connLog
  /\ UNCHANGED connRest

\* ws.onmessage of socket i: the server answers the start_conversation sent
\* on it with chat_complete or with error (handleChatComplete, handleError)
ClientMessage(i) ==
  /\ conn.socks[i] = "open"
  /\ i \in conn.asked
  /\ ~InTask(conn)
  /\ \E type \in {"chat_complete", "error"} :
       conn' = [conn EXCEPT !.asked = @ \ {i},
                            !.connectionStatus =
                               IF type = "chat_complete" \/ @ = "processing"
                               THEN "connected" ELSE @]
  /\ UNCHANGED connLog
  /\ UNCHANGED connRest

ConnNext ==
  \/ Connect
  \/ ClientStartConversation
  \/ \E i \in 1..MaxSockets : ClientMessage(i)
  \/ \E i \in 1..MaxSockets : SocketOpen(i)
  \/ \E i \in 1..MaxSockets : SocketError(i)
  \/ \E i \in 1..MaxSockets : SocketClose(i)
  \/ \E i \in 1..MaxSockets : ConnectTimeout(i)
  \/ \E t \in 1..MaxSockets : ReconnectTimer(t)
  \/ Disconnect

ConnSpec == ConnInit /\ [][ConnNext]_vars

\* =========================================================================
\* Server start-up and the configuration checks
\* =========================================================================
ServerInit ==
  /\ config \in Configs
  /\ ttsConfig = buildTtsConfig(config)
  /\ isRunning = FALSE
  /\ server = "none"
  /\ startCall = "none"
  /\ coreCall = "none"
  /\ coreSock = "none"
  /\ coreSent = <<>>
  /\ ConvInit /\ TsIdle /\ ClientNew /\ CodecIdle /\ ConnIdle /\ HubIdle

\* start() up to its await of listen(): throws when already running or when
\* the TTS configuration is incomplete, else creates the servers
ServerStart ==
  /\ startCall \in {"none", "threw", "resolved", "rejected"}
  /\ IF isRunning \/ ttsConfigIncomplete(ttsConfig)
     THEN /\ startCall' = "threw"
          /\ UNCHANGED server
     ELSE /\ server' = "created"
          /\ startCall' = "pending"
  /\ UNCHANGED <<config, ttsConfig, isRunning, coreCall, coreSock, coreSent>>
  /\ UNCHANGED serverRest

\* the listen callback without error: isRunning = true
ServerListening ==
  /\ startCall = "pending"
  /\ server' = "listening"
  /\ isRunning' = TRUE
  /\ startCall' = "resolved"
  /\ UNCHANGED <<config, ttsConfig, coreCall, coreSock, coreSent>>
  /\ UNCHANGED serverRest

\* the listen callback with an error: start() rethrows
ServerListenError ==
  /\ startCall = "pending"
  /\ startCall' = "rejected"
  /\ UNCHANGED <<config, ttsConfig, isRunning, server, coreCall, coreSock, coreSent>>
  /\ UNCHANGED serverRest

\* initWebScoketInstance(ttsConfig) up to its first await: throws on an
\* incomplete configuration, else creates the socket
CoreInit ==
  /\ coreCall \in {"none", "threw"}
  /\ IF configIncomplete(ttsConfig)
     THEN /\ coreCall' = "threw"
          /\ UNCHANGED coreSock
     ELSE /\ coreCall' = "wsOpen"
          /\ coreSock' = "connecting"
  /\ UNCHANGED <<config, ttsConfig, isRunning, server, startCall, coreSent>>
  /\ UNCHANGED serverRest

\* 'open' on that socket: StartConnection is sent
CoreOpened ==
  /\ coreCall = "wsOpen"
  /\ coreSock' = "open"
  /\ coreSent' = Append(coreSent, Out("StartConnection", <<>>))
  /\ coreCall' = "handshake"
  /\ UNCHANGED <<config, ttsConfig, isRunning, server, startCall>>
  /\ UNCHANGED serverRest

\* variant of stopBegin: the registry is not cleared
stopBegin_keepsClients(h) == [h EXCEPT !.stopCall = "closingWss"]

\* stop() on a running server up to its first await: every client socket is
\* closed, the registry is cleared and wss.close() is called
stopBegin(h) == [h EXCEPT !.clients = {}, !.stopCall = "closingWss"]

\* the application calls stop(): it returns at once when the server is not
\* running (one stop() at a time)
ServerStop ==
  /\ hub.stopCall \notin {"closingWss", "closingServer"}
  /\ hub' = IF ~isRunning THEN [hub EXCEPT !.stopCall = "noop"] ELSE stopBegin(hub)
  /\ UNCHANGED serverVars
  /\ UNCHANGED hubRest

\* the callback of wss.close(): server.close() is called
StopWssClosed ==
  /\ hub.stopCall = "closingWss"
  /\ hub' = [hub EXCEPT !.stopCall = "closingServer"]
  /\ UNCHANGED serverVars
  /\ UNCHANGED hubRest

\* the callback of server.close(): isRunning = false
StopServerClosed ==
  /\ hub.stopCall = "closingServer"
  /\ hub' = [hub EXCEPT !.stopCall = "resolved"]
  /\ isRunning' = FALSE
  /\ server' = "closed"
  /\ UNCHANGED <<config, ttsConfig, startCall, coreCall, coreSock, coreSent>>
  /\ UNCHANGED hubRest

\* handleConnection: a client connects to the listening server, which has
\* not called wss.close(); it is registered under a new id and greeted
ClientConnects ==
  /\ server = "listening"
  /\ hub.stopCall \notin {"closingWss", "closingServer"}
  /\ hub.created < MaxClients
  /\ hub' = [hub EXCEPT !.created = @ + 1,
                        !.clients = @ \cup {hub.created + 1},
                        !.out = Append(@, [client |-> hub.created + 1,
                                           type |-> "connection_established",
                                           requestId |-> 0, handler |-> 0])]
  /\ UNCHANGED serverVars
  /\ UNCHANGED hubRest

\* the close handler of a client's socket: the client leaves the registry
ClientCloses ==
  /\ \E c \in hub.clients : hub' = [hub EXCEPT !.clients = @ \ {c}]
  /\ UNCHANGED serverVars
  /\ UNCHANGED hubRest

ServerNext ==
  \/ ServerStart
  \/ ServerListening
  \/ ServerListenError
  \/ CoreInit
  \/ CoreOpened
  \/ ServerStop
  \/ StopWssClosed
  \/ StopServerClosed
  \/ ClientConnects
  \/ ClientCloses

ServerSpec == ServerInit /\ [][ServerNext]_vars

\* =========================================================================
\* The running server handling client messages. Every message starts a call
\* of handleClientMessage, which runs beside the calls already in progress;
\* hub.handlers[h] is the h-th call: its client, its kind, the requestId of a
\* synthesize_text (0 for none), its position pc, its audioProcessPromise
\* (reader), and, as history, whether the session-ended frame was received
\* (ended) and session.finished() resolved (tornDown).
\* =========================================================================
\* messages a client sends: type, userMessage, requestId (0 for none), text
ClientMessages ==
  [type : {"start_conversation"}, userMessage : {"", "hi"}, requestId : {0}, text : {""}]
    \cup [type : {"synthesize_text"}, userMessage : {""}, requestId : {0, 1}, text : {"", "t"}]
    \cup [type : {"ping"}, userMessage : {""}, requestId : {0}, text : {""}]

\* sendToClient from handler i: written only while the handler's client is
\* registered; handlers[i].sent is what the handler wrote, in order
hubSend(h, i, type) ==
  IF h.handlers[i].client \in h.clients
  THEN [h EXCEPT !.handlers[i].sent =
                   Append(@, [type |-> type, requestId |-> h.handlers[i].requestId])]
  ELSE h

NewHandler(c, kind, requestId, at) ==
  [client |-> c, kind |-> kind, requestId |-> requestId, pc |-> at,
   reader |-> "none", ended |-> FALSE, tornDown |-> FALSE, sent |-> <<>>]

\* handleClientMessage up to the first await of the handler it calls; the
\* requestId a handler carries is made unique by the number of the call
handleClientMessage(h, c, msg) ==
  LET n == Len(h.handlers) + 1
      add(hd) == [h EXCEPT !.handlers = Append(@, hd)]
  IN CASE msg.type = "start_conversation" ->
            IF ~h.kimiClient \/ msg.userMessage = ""
            THEN hubSend(add(NewHandler(c, "conv", 0, "failed")), n, "error")
            ELSE hubSend(add(NewHandler(c, "conv", 0, "init")), n, "conversation_started")
       [] msg.type = "synthesize_text" ->
            IF msg.requestId = 0 \/ msg.text = ""
            THEN hubSend(add(NewHandler(c, "synth", 0, "invalid")), n, "error")
            ELSE add(NewHandler(c, "synth", n, "init"))
       [] OTHER -> hubSend(add(NewHandler(c, "ping", 0, "done")), n, "pong")

\* variant of synthResolved: synthesis_complete is sent when the reader is
\* done, before session.finished()
synthResolved_early(h, i) ==
  LET hd == h.handlers[i]
  IN CASE hd.pc = "init" -> [h EXCEPT !.handlers[i].pc = "startSession"]
       [] hd.pc = "startSession" ->
            [h EXCEPT !.handlers[i].pc = "send", !.handlers[i].reader = "running"]
       [] hd.pc = "send" -> [h EXCEPT !.handlers[i].pc = "awaitReader"]
       [] hd.pc = "awaitReader" ->
            hubSend([h EXCEPT !.handlers[i].pc = "finished"], i, "synthesis_complete")
       [] hd.pc = "finished" ->
            [h EXCEPT !.handlers[i].pc = "done", !.handlers[i].tornDown = TRUE]

\* handleSynthesizeText: the awaited promise resolved. The awaits are
\* initWebScoketInstance (init), startSession, session.send,
\* audioProcessPromise (awaitReader) and session.finished
synthResolved(h, i) ==
  LET hd == h.handlers[i]
  IN CASE hd.pc = "init" -> [h EXCEPT !.handlers[i].pc = "startSession"]
       [] hd.pc = "startSession" ->
            [h EXCEPT !.handlers[i].pc = "send", !.handlers[i].reader = "running"]
       [] hd.pc = "send" -> [h EXCEPT !.handlers[i].pc = "awaitReader"]
       [] hd.pc = "awaitReader" -> [h EXCEPT !.handlers[i].pc = "finished"]
       [] hd.pc = "finished" ->
            hubSend([h EXCEPT !.handlers[i].pc = "done", !.handlers[i].tornDown = TRUE],
                    i, "synthesis_complete")

\* handleSynthesizeText: the awaited promise rejected, the catch answers
synthRejected(h, i) ==
  hubSend([h EXCEPT !.handlers[i].pc = "failed"], i, "synthesis_error")

SynthPending == {"init", "startSession", "send", "finished"}

HubInit ==
  /\ \E k \in BOOLEAN : hub = [NewHub EXCEPT !.kimiClient = k]
  /\ ConvInit /\ ServerUp /\ TsIdle /\ ClientNew /\ CodecIdle /\ ConnIdle

\* ws.on('message') of a registered client
HubMessage ==
  /\ Len(hub.handlers) < MaxHandlers
  /\ \E c \in hub.clients, msg \in ClientMessages : hub' = handleClientMessage(hub, c, msg)
  /\ UNCHANGED serverVars
  /\ UNCHANGED hubRest

\* an awaited step of handleSynthesizeText resolves; audioProcessPromise
\* counts once the reader loop has returned
SynthResolves(i) ==
  /\ hub.handlers[i].kind = "synth"
  /\ \/ hub.handlers[i].pc \in SynthPending
     \/ hub.handlers[i].pc = "awaitReader" /\ hub.handlers[i].reader = "resolved"
  /\ hub' = synthResolved(hub, i)
  /\ UNCHANGED serverVars
  /\ UNCHANGED hubRest

\* an awaited step of handleSynthesizeText rejects
SynthRejects(i) ==
  /\ hub.handlers[i].kind = "synth"
  /\ \/ hub.handlers[i].pc \in SynthPending
     \/ hub.handlers[i].pc = "awaitReader" /\ hub.handlers[i].reader = "rejected"
  /\ hub' = synthRejected(hub, i)
  /\ UNCHANGED serverVars
  /\ UNCHANGED hubRest

\* one turn of the loop of audioProcessPromise: session.receive() returns a
\* frame (the session-ended frame resolves the promise, audio and other
\* kinds keep the loop going and leave the handler where it is) or rejects
SynthReader(i) ==
  /\ hub.handlers[i].kind = "synth"
  /\ hub.handlers[i].reader = "running"
  /\ \E got \in {"TTSResponse", "TTSEnded", "rejected"} :
       hub' = CASE got = "TTSEnded" ->
                     [hub EXCEPT !.handlers[i].reader = "resolved", !.handlers[i].ended = TRUE]
                [] got = "rejected" -> [hub EXCEPT !.handlers[i].reader = "rejected"]
                [] OTHER -> hub
  /\ UNCHANGED serverVars
  /\ UNCHANGED hubRest

\* processConversation of a start_conversation resolves a stage: the backend
\* session is started (init), then its events go to the client (session),
\* then chat_complete ends the call
ConvProceeds(i) ==
  /\ hub.handlers[i].kind = "conv"
  /\ hub.handlers[i].pc \in {"init", "session", "closing"}
  /\ LET hd == hub.handlers[i]
     IN hub' = CASE hd.pc = "init" -> [hub EXCEPT !.handlers[i].pc = "session"]
                 [] hd.pc = "session" ->
                      hubSend([hub EXCEPT !.handlers[i].pc = "closing"], i, "sentence_start")
                 [] OTHER -> hubSend([hub EXCEPT !.handlers[i].pc = "done"], i, "chat_complete")
  /\ UNCHANGED serverVars
  /\ UNCHANGED hubRest

\* processConversation throws: the catch of handleStartConversation answers
ConvFails(i) ==
  /\ hub.handlers[i].kind = "conv"
  /\ hub.handlers[i].pc \in {"init", "session", "closing"}
  /\ hub' = hubSend([hub EXCEPT !.handlers[i].pc = "failed"], i, "error")
  /\ UNCHANGED serverVars
  /\ UNCHANGED hubRest

HubNext ==
  \/ ClientConnects
  \/ ClientCloses
  \/ HubMessage
  \/ \E i \in DOMAIN hub.handlers : SynthResolves(i)
  \/ \E i \in DOMAIN hub.handlers : SynthRejects(i)
  \/ \E i \in DOMAIN hub.handlers : SynthReader(i)
  \/ \E i \in DOMAIN hub.handlers : ConvProceeds(i)
  \/ \E i \in DOMAIN hub.handlers : ConvFails(i)

HubSpec == HubInit /\ [][HubNext]_vars

\* the backend settles every promise a handler awaits, and the stream of a
\* session ends or breaks
HubFairSpec ==
  /\ HubSpec
  /\ \A i \in 1..MaxHandlers :
       /\ WF_vars(i \in DOMAIN hub.handlers /\ (SynthResolves(i) \/ SynthRejects(i)))
       /\ WF_vars(i \in DOMAIN hub.handlers /\ SynthReader(i))

\* ===================================================== observations
NumEv(t) == Len(SelectSeq(events, LAMBDA e : e.type = t))
NumSent(f) == Len(SelectSeq(sent, LAMBDA o : o.frame = f))
Received(e) == \E j \in DOMAIN rcvd : rcvd[j].event = e
NonEmptyChunks == SelectSeq(chunks, LAMBDA c : c # <<>>)

RECURSIVE Flatten(_)
Flatten(ss) == IF ss = <<>> THEN <<>> ELSE Head(ss) \o Flatten(Tail(ss))

\* contents of the text_chunk events of a sequence of events, concatenated
RECURSIVE ConcatContents(_)
ConcatContents(es) ==
  IF es = <<>> THEN <<>>
  ELSE (IF Head(es).type = "text_chunk" THEN Head(es).content ELSE <<>>)
         \o ConcatContents(Tail(es))

\* ids of the sentence_complete events, in order
RECURSIVE CompleteIds(_)
CompleteIds(es) ==
  IF es = <<>> THEN <<>>
  ELSE (IF Head(es).type = "sentence_complete" THEN <<Head(es).sentenceId>> ELSE <<>>)
         \o CompleteIds(Tail(es))

\* ids of the sentences that were open when a sentence-end frame came in,
\* read off the received frames alone (open: the id of the open sentence)
RECURSIVE ClosedByEnd(_, _)
ClosedByEnd(fs, open) ==
  IF fs = <<>> THEN <<>>
  ELSE LET m == Head(fs)
       IN CASE m.event = "TTSSentenceStart" -> ClosedByEnd(Tail(fs), m.sequence)
            [] m.event = "TTSSentenceEnd" ->
                 (IF open # Undef THEN <<open>> ELSE <<>>) \o ClosedByEnd(Tail(fs), Undef)
            [] OTHER -> ClosedByEnd(Tail(fs), open)

SentenceEventTypes == {"sentence_start", "audio_chunk", "sentence_complete"}

\* =========================================================== claims

\* C1: the finish-session frame is on the wire only when the text stream has
\* completed (its task frame sent and chatProcessPromise fulfilled) and the
\* session-ended frame has been received (audioProcessPromise fulfilled).
C1_JoinBarrier ==
  NumSent("FinishSession") > 0 =>
    /\ writer = "resolved"
    /\ reader = "resolved"
    /\ NumSent("TaskRequest") = 1
    /\ Received("TTSEnded")

C1_Witness ==
  /\ NumSent("FinishSession") = 1
  /\ Len(NonEmptyChunks) = 2
  /\ Len(SessionFrames) = 3

\* C2: when the conversation is over, totalSentences of the chat_complete
\* event equals the number of sentence_start events sent to the client.
C2_TotalSentencesMatchesStarts ==
  pc = "done" =>
    \A i \in DOMAIN events :
      events[i].type = "chat_complete" =>
        events[i].totalSentences = NumEv("sentence_start")

\* C3: fullText of the chat_complete event is the concatenation of the
\* contents of the text_chunk events sent before it, and the processor's
\* fullText is always the concatenation of the handleTextChunk arguments.
C3_FullTextIsConcatenation ==
  /\ \A i \in DOMAIN events :
       events[i].type = "chat_complete" =>
         events[i].fullText = ConcatContents(SubSeq(events, 1, i - 1))
  /\ proc.fullText = ConcatContents(events)
  /\ proc.fullText = Flatten(chunks)

C3_Witness ==
  \E i \in DOMAIN events :
    /\ events[i].type = "chat_complete"
    /\ events[i].fullText = <<97, 98>>

\* C4: a chat_complete event is sent only after the session-ended frame
\* has been received.
C4_ChatCompleteAfterSessionEnded ==
  NumEv("chat_complete") > 0 => Received("TTSEnded")

C6_HandshakeFailureClosesSocket ==
  (pc = "failed" /\ sent = <<Out("StartConnection", <<>>)>>) =>
    /\ sock = "closed"
    /\ \A i \in DOMAIN events : events[i].type \notin SentenceEventTypes

\* C7: a conversation that has failed, at whatever point and also when both
\* the reader and the writer fail, has sent exactly one error event; one
\* that has not failed has sent none.
C7_ExactlyOneError ==
  /\ NumEv("error") <= 1
  /\ pc \in {"failed", "returned"} <=> NumEv("error") = 1
  /\ (reader = "rejected" \/ writer = "rejected") => pc \in {"join", "failed"}

C7_Witness ==
  /\ pc = "failed"
  /\ reader = "rejected"
  /\ writer = "rejected"
  /\ NumEv("error") = 1

\* C8: the sentence_complete events are exactly the sentences that were open
\* when a sentence-end frame was received; a sentence left open at a new
\* sentence-start, at session end or at a failure gets none.
C8_NoPartialSentenceComplete ==
  CompleteIds(events) = ClosedByEnd(SessionFrames, Undef)

C8_Witness ==
  /\ SessionFrames = <<Frame("TTSSentenceStart", 1, NoPayload),
                       Frame("TTSSentenceStart", 2, NoPayload),
                       Frame("TTSSentenceEnd", Undef, NoPayload)>>
  /\ CompleteIds(events) = <<2>>
  /\ reader = "rejected"

\* C9: once a conversation has failed after the backend socket was opened
\* and the reader loop started, the reader loop has stopped, the socket is
\* closed and the error is the last event sent.
C9_FailureReleasesSession ==
  (pc = "failed" /\ sock # "none" /\ reader # "none") =>
    /\ reader # "running"
    /\ sock = "closed"
    /\ events[Len(events)].type = "error"

\* C10: finished() sends finish-session, then finish-connection, then waits;
\* the socket stays open until the connection-finished acknowledgment is in.
C10_TeardownOrder ==
  LET n == Len(sent)
  IN /\ pc \in {"finSession", "finConn", "waitFin"} => sock = "open"
     /\ pc = "finSession" => sent[n].frame = "FinishSession"
     /\ pc \in {"finConn", "waitFin", "done"} =>
          /\ sent[n - 1].frame = "FinishSession"
          /\ sent[n].frame = "FinishConnection"
     /\ (sock = "closed" /\ n > 0) =>
          /\ pc = "done"
          /\ rcvd[Len(rcvd)].event = "ConnectionFinished"

C10_Witness ==
  /\ pc = "done"
  /\ sock = "closed"
  /\ rcvd[Len(rcvd)].event = "ConnectionFinished"

\* C11: with appId, accessKey or wsUrl missing or empty, start() and
\* initWebScoketInstance throw before anything is opened: no HTTP server, no
\* backend socket, no frame.
C11_MissingConfigRejected ==
  (Falsy(config.appId) \/ Falsy(config.accessKey) \/ Falsy(config.wsUrl))
    => /\ server = "none"
       /\ ~isRunning
       /\ startCall \in {"none", "threw"}
       /\ coreCall \in {"none", "threw"}
       /\ coreSock = "none"
       /\ coreSent = <<>>

C11_Witness ==
  /\ config.appId = "v" /\ config.accessKey = "undefined" /\ config.wsUrl = ""
  /\ startCall = "threw"
  /\ coreCall = "threw"

\* C13: convertWordsToCharTimestamps returns one timestamp for each
\* character of the whitespace-normalized text, in the order of the text,
\* whatever the words are.
C13_Coverage ==
  tsPc = "converted" =>
    /\ Len(tsOut.timestamps) = Len(cleanText(tsIn.text))
    /\ \A i \in DOMAIN tsOut.timestamps :
         tsOut.timestamps[i].char = cleanText(tsIn.text)[i]

\* the words cover one character, the text normalizes to two
C13_Witness ==
  /\ tsPc = "converted"
  /\ tsIn.text = <<" ", "a", ".">>
  /\ tsIn.words = <<[word |-> <<"a">>, startTime |-> 0, endTime |-> 300]>>
  /\ Len(tsOut.timestamps) = 2

Ordered(ts) ==
  /\ \A i \in DOMAIN ts : ts[i].startTime <= ts[i].endTime
  /\ \A i \in DOMAIN ts : i > 1 => ts[i - 1].endTime <= ts[i].startTime

\* position of the last sentence_start for id in the client's history, 0 if none
LastStart(id) ==
  LET S == {i \in DOMAIN clientLog :
              clientLog[i].type = "sentence_start" /\ clientLog[i].sentenceId = id}
  IN IF S = {} THEN 0 ELSE Max(S)

\* payloads of the audio_chunk events received for the sentence id since it started
RECURSIVE PayloadsFrom(_, _)
PayloadsFrom(id, i) ==
  IF i > Len(clientLog) THEN <<>>
  ELSE (IF clientLog[i].type = "audio_chunk" /\ clientLog[i].sentenceId = id
        THEN <<clientLog[i].audioData>> ELSE <<>>) \o PayloadsFrom(id, i + 1)

RECURSIVE SumLen(_)
SumLen(ps) == IF ps = <<>> THEN 0 ELSE Len(Head(ps)) + SumLen(Tail(ps))

\* C12: for the audio_chunk events received for a sentence, getMergedAudio
\* returns the concatenation of their payloads in arrival order, and its
\* length is the sum of the payload lengths (with no chunk it returns null).
C12_MergedAudioIsConcatenation ==
  \A id \in SentenceIds :
    LET payloads == IF LastStart(id) = 0 THEN <<>> ELSE PayloadsFrom(id, LastStart(id))
    IN IF payloads = <<>>
       THEN getMergedAudio(id).isNull
       ELSE /\ ~getMergedAudio(id).isNull
            /\ getMergedAudio(id).bytes = Flatten(payloads)
            /\ Len(getMergedAudio(id).bytes) = SumLen(payloads)

C12_Witness ==
  /\ Len(clientLog) = 3
  /\ clientLog[2].type = "audio_chunk" /\ clientLog[2].audioData = <<2, 255>>
  /\ clientLog[3].type = "audio_chunk" /\ clientLog[3].audioData = <<1>>
  /\ getMergedAudio(1).bytes = <<2, 255, 1>>

\* C17: a sentence whose status is 'completed' is never changed again: no
\* later audio_chunk or sentence_complete event changes its status, its
\* audioChunks or its timestamps (a sentence_start that begins a new
\* sentence under the same id is left aside).
C17_CompletedImmutable ==
  [][\A id \in DOMAIN sentences :
       (sentences[id].status = "completed"
          /\ clientLog'[Len(clientLog')].type # "sentence_start")
         => sentences'[id] = sentences[id]]_vars

\* every word lasts at least 100 ms for each of its characters
Plausible(ws) ==
  \A i \in DOMAIN ws : ws[i].endTime - ws[i].startTime >= 100 * Len(ws[i].word)

\* C14: the timestamps convertWordsToCharTimestamps returns are ordered:
\* start[i] <= end[i] <= start[i+1] for every i, across word boundaries,
\* punctuation, spaces and leftover characters (stated for words that are
\* well timed and last at least 100 ms per character).
C14_Ordering ==
  (tsPc = "converted" /\ Plausible(tsIn.words)) => Ordered(tsOut.timestamps)

\* C15: generateEstimatedTimestamps returns one timestamp for each character
\* and the last one ends at the total duration (within 1 ms of rounding),
\* with or without punctuation in the sentence.
C15_EstimatePreservesDuration ==
  (tsPc = "estimated" /\ tsIn.text # <<>>) =>
    /\ Len(tsOut.timestamps) = Len(tsIn.text)
    /\ tsOut.timestamps[Len(tsOut.timestamps)].endTime >= tsOut.totalDuration - 1
    /\ tsOut.timestamps[Len(tsOut.timestamps)].endTime <= tsOut.totalDuration + 1

Scenario ==
  <<Frame("TTSSentenceStart", 1, TextPayload(ScenarioText)),
    Frame("TTSResponse", Undef, AudioPayload(100)),
    Frame("TTSSentenceEnd", Undef, WordsPayload(ScenarioWords, ScenarioText))>>

LastEvent == events[Len(events)]

\* C16 as stated: in the scenario the full stop takes a punctuation slot,
\* 100 ms wide, behind the two characters of the word.
C16_PunctuationSlot ==
  rcvd = Scenario =>
    /\ Len(LastEvent.audioTimestamps) = 3
    /\ LastEvent.audioTimestamps[1] = Stamp("n", 0, 300)
    /\ LastEvent.audioTimestamps[2] = Stamp("h", 300, 600)
    /\ LastEvent.audioTimestamps[3].char = "."
    /\ LastEvent.audioTimestamps[3].endTime - LastEvent.audioTimestamps[3].startTime = 100
    /\ LastEvent.totalChunks = 1

\* C16: sentence-start (id 1, three characters), one 100-byte fragment and a
\* sentence-end whose word covers the first two characters from 0 to 0.6 s
\* yield sentence_complete with three timestamps: [0,300], [300,600] and,
\* for the full stop the word does not contain, the leftover slot [600,800];
\* totalChunks is 1.
C16_Scenario ==
  rcvd = Scenario =>
    /\ LastEvent.type = "sentence_complete"
    /\ LastEvent.sentenceId = 1
    /\ LastEvent.audioTimestamps
         = <<Stamp("n", 0, 300), Stamp("h", 300, 600), Stamp(".", 600, 800)>>
    /\ LastEvent.totalAudioDuration = 800
    /\ LastEvent.totalChunks = 1

C16_Witness ==
  /\ rcvd = Scenario
  /\ Len(events) = 3
  /\ events[3].type = "sentence_complete"

\* C18: a frame whose kind the reader loop does not know changes no
\* processor field, sends no client event, leaves the loop running and does
\* not fail the conversation.
KnownKinds == {"TTSSentenceStart", "TTSResponse", "TTSSentenceEnd", "TTSEnded"}

C18_UnknownKindIgnored ==
  [][(reader = "running" /\ Len(SessionFrames') = Len(SessionFrames) + 1
        /\ rcvd'[Len(rcvd')].event \notin KnownKinds)
       => (proc' = proc /\ events' = events /\ reader' = "running"
             /\ pc' = pc /\ writer' = writer /\ sent' = sent)]_vars

C18_Witness ==
  /\ SessionFrames = <<Frame("SessionStarted", Undef, NoPayload),
                       Frame("TTSSentenceStart", 1, NoPayload),
                       Frame("SessionStarted", Undef, NoPayload)>>
  /\ NumEv("sentence_start") = 1
  /\ NumEv("error") = 0
  /\ reader = "running"

\* C19: at most one receive is pending on the backend socket: the handshake
\* wait, the reader loop's session.receive() and the wait of finished() are
\* never pending together.
PendingReceives ==
  (IF pc = "handshake" THEN 1 ELSE 0)
    + (IF reader = "running" THEN 1 ELSE 0)
    + (IF pc = "waitFin" THEN 1 ELSE 0)

C19_SingleReader ==
  /\ PendingReceives <= 1
  /\ pc \in {"idle", "create", "wsOpen", "handshake", "startSession"} => reader = "none"
  /\ pc \in {"finSession", "finConn", "waitFin", "done"} => reader = "resolved"

C19_Witness ==
  /\ pc = "waitFin"
  /\ reader = "resolved"
  /\ Len(SessionFrames) = 3

\* C20: on one connection the outbound frames go out in causal order:
\* connection-start, session-start, task submissions, finish-session,
\* finish-connection; none is sent without its predecessor and no task
\* frame follows finish-session.
Rank(o) ==
  CASE o.frame = "StartConnection" -> 1
    [] o.frame = "StartSession" -> 2
    [] o.frame = "TaskRequest" -> 3
    [] o.frame = "FinishSession" -> 4
    [] o.frame = "FinishConnection" -> 5

C20_OutboundOrder ==
  /\ sent # <<>> => Rank(sent[1]) = 1
  /\ \A i \in DOMAIN sent :
       i > 1 =>
         \/ Rank(sent[i]) = Rank(sent[i - 1]) + 1
         \/ (Rank(sent[i]) = 3 /\ Rank(sent[i - 1]) = 3)

C20_Witness ==
  /\ Len(sent) = 5
  /\ sent[5].frame = "FinishConnection"
  /\ sent[3].text = <<97, 98>>

\* C21: at most one session is active on the backend connection: two
\* session-start frames on the socket have a finish-session frame between
\* them, and when the socket is closed on the normal path the session that
\* was started has been finished.
C21_OneActiveSession ==
  /\ \A i, j \in DOMAIN sent :
       (i < j /\ sent[i].frame = "StartSession" /\ sent[j].frame = "StartSession")
         => \E k \in DOMAIN sent : i < k /\ k < j /\ sent[k].frame = "FinishSession"
  /\ (pc = "done" /\ sock = "closed")
       => /\ NumSent("StartSession") = 1
          /\ \E i, k \in DOMAIN sent :
               i < k /\ sent[i].frame = "StartSession" /\ sent[k].frame = "FinishSession"

C21_Witness ==
  /\ pc = "done"
  /\ sock = "closed"
  /\ NumSent("StartSession") = 1
  /\ NumSent("FinishSession") = 1
  /\ NumEv("sentence_complete") = 1

\* C22: once the conversation has failed it stays failed, no backend socket
\* is opened for it and no connection-start, session-start or
\* task-submission frame is sent for it any more.
C22_FailedIsTerminal ==
  [][pc = "failed"
       => /\ pc' = "failed"
          /\ sock' # "connecting"
          /\ \A i \in DOMAIN sent' :
               i > Len(sent)
                 => sent'[i].frame \notin {"StartConnection", "StartSession", "TaskRequest"}]_vars

\* C23: decoding the encoding of a valid frame yields its event kind, its
\* sequence number (or none) and its payload.
C23_CodecRoundTrip ==
  codecPc = "decoded" =>
    /\ decoded.ok
    /\ decoded.event = frame.event
    /\ decoded.sequence = frame.sequence
    /\ decoded.payload = frame.payload

C23_Witness ==
  /\ codecPc = "decoded"
  /\ frame = [event |-> "TTSSentenceStart", sequence |-> 0, payload |-> <<255, 0>>]
  /\ decoded.sequence = 0

\* the reconnects scheduled since the last connection opened
RECURSIVE ScheduledSinceOpen(_)
ScheduledSinceOpen(log) ==
  IF log = <<>> \/ log[Len(log)] = "open"
  THEN 0
  ELSE 1 + ScheduledSinceOpen(SubSeq(log, 1, Len(log) - 1))

SocketCloses(i) == conn.socks[i] # "closed" /\ conn'.socks[i] = "closed"

\* C24: when a socket closes while no manual disconnect is in force and the
\* attempt limit is not reached, a reconnect is scheduled; the reconnects
\* scheduled since the last open connection, and the attempt counter, never
\* exceed maxReconnectAttempts; the counter goes back to 0 only in a step in
\* which a socket opens.
C24_AutoReconnect ==
  /\ [](/\ conn.reconnectAttempts <= conn.maxReconnectAttempts
        /\ ScheduledSinceOpen(connLog) <= conn.maxReconnectAttempts)
  /\ [][/\ \A i \in 1..MaxSockets :
             (/\ SocketCloses(i)
              /\ ~conn.isManualDisconnect
              /\ conn.reconnectAttempts < conn.maxReconnectAttempts)
               => /\ connLog' = Append(connLog, "schedule")
                  /\ i \in conn'.timers
                  /\ conn'.reconnectAttempts = conn.reconnectAttempts + 1
        /\ conn'.reconnectAttempts < conn.reconnectAttempts
             => /\ conn'.reconnectAttempts = 0
                /\ \E i \in 1..MaxSockets :
                     conn.socks[i] = "connecting" /\ conn'.socks[i] = "open"]_vars

\* two reconnects were scheduled in a row, the limit of 2 is reached and the
\* third socket closed without a further one
C24_Witness ==
  /\ conn.maxReconnectAttempts = 2
  /\ conn.reconnectAttempts = 2
  /\ ~conn.isManualDisconnect
  /\ ScheduledSinceOpen(connLog) = 2
  /\ \A i \in 1..3 : conn.socks[i] = "closed"
  /\ conn.timers = {}

\* ---- one frame handed to the processor: the frame and the events it emitted
Handled == Len(rcvd') = Len(rcvd) + 1 /\ SubSeq(rcvd', 1, Len(rcvd)) = rcvd
HandledFrame == rcvd'[Len(rcvd')]
Emitted == SubSeq(events', Len(events) + 1, Len(events'))
StartsReceived == Len(SelectSeq(rcvd, LAMBDA m : m.event = "TTSSentenceStart"))

\* a sentence is open after the frames fs when the latest sentence-start or
\* sentence-end frame among them is a sentence-start
SentenceOpen(fs) ==
  LET S == {i \in DOMAIN fs : fs[i].event \in {"TTSSentenceStart", "TTSSentenceEnd"}}
  IN S # {} /\ fs[Max(S)].event = "TTSSentenceStart"

\* no sentence-start frame has come in since the latest sentence-end frame
ClosedSinceEnd(fs) ==
  LET S == {i \in DOMAIN fs : fs[i].event \in {"TTSSentenceStart", "TTSSentenceEnd"}}
  IN S # {} /\ fs[Max(S)].event = "TTSSentenceEnd"

\* audio_chunk events since the latest sentence_start event
ChunksSinceStart(es) ==
  LET S == {i \in DOMAIN es : es[i].type = "sentence_start"}
      from == IF S = {} THEN 0 ELSE Max(S)
  IN Cardinality({i \in DOMAIN es : i > from /\ es[i].type = "audio_chunk"})

\* C25: every sentence-start frame received has produced one sentence_start
\* event, whatever its sequence number or payload.
C25_EveryStartReported ==
  NumEv("sentence_start") = StartsReceived

\* C26: after a sentence-start frame the sentence id is the frame's sequence
\* number when it has one, else the payload's sentence_id when the payload
\* parses and has one, else a fallback id.
C26_IdPrecedence ==
  (rcvd # <<>> /\ rcvd[Len(rcvd)].event = "TTSSentenceStart") =>
    LET m == rcvd[Len(rcvd)]
    IN /\ m.sequence # Undef => proc.currentSentenceId = m.sequence
       /\ (m.sequence = Undef /\ m.payload.json = "obj" /\ m.payload.sentence_id # Undef)
            => proc.currentSentenceId = m.payload.sentence_id
       /\ (m.sequence = Undef /\ (m.payload.json # "obj" \/ m.payload.sentence_id = Undef))
            => proc.currentSentenceId \in FallbackIds

\* the sequence number won over the payload's id, then the payload's id was
\* taken for a frame without a sequence number
C26_Witness ==
  /\ Len(rcvd) = 2
  /\ rcvd[1] = Frame("TTSSentenceStart", 1, ObjPayload(5))
  /\ rcvd[2] = Frame("TTSSentenceStart", Undef, ObjPayload(5))
  /\ events[1].sentenceId = 1
  /\ proc.currentSentenceId = 5

\* C27: an audio-response frame produces an audio_chunk event exactly when its
\* payload is non-empty and a sentence is open; the event's chunkIndex is the
\* number of chunks since the sentence started and isLast is false; a frame
\* that produces none changes no state.
C27_AudioFragments ==
  [][(Handled /\ HandledFrame.event = "TTSResponse") =>
       IF HandledFrame.payload.len > 0 /\ SentenceOpen(rcvd)
       THEN /\ Len(Emitted) = 1
            /\ Emitted[1].type = "audio_chunk"
            /\ Emitted[1].chunkIndex = ChunksSinceStart(events)
            /\ Emitted[1].isLast = FALSE
       ELSE /\ Emitted = <<>>
            /\ proc' = proc]_vars

\* C28: after a sentence-end frame no sentence is open; until the next
\* sentence-start frame an audio frame and a further sentence-end frame
\* produce no event; every sentence_complete event follows the sentence_start
\* event of the same id with no other sentence_complete in between.
C28_EndCloses ==
  /\ [](\A i \in DOMAIN events :
          events[i].type = "sentence_complete" =>
            LET S == {j \in 1..(i - 1) : events[j].type \in {"sentence_start", "sentence_complete"}}
            IN /\ S # {}
               /\ events[Max(S)].type = "sentence_start"
               /\ events[Max(S)].sentenceId = events[i].sentenceId)
  /\ [][Handled =>
          /\ HandledFrame.event = "TTSSentenceEnd" => ~Truthy(proc'.currentSentenceId)
          /\ (ClosedSinceEnd(rcvd) /\ HandledFrame.event \in {"TTSResponse", "TTSSentenceEnd"})
               => Emitted = <<>>]_vars

\* a sentence was started and ended, and the audio that came after its end
\* produced nothing
C28_Witness ==
  /\ Len(rcvd) = 3
  /\ rcvd[1].event = "TTSSentenceStart"
  /\ rcvd[2].event = "TTSSentenceEnd"
  /\ rcvd[3] = Frame("TTSResponse", Undef, AudioPayload(100))
  /\ Len(events) = 2
  /\ events[2].type = "sentence_complete"
  /\ events[2].sentenceId = events[1].sentenceId

\* what the priority of the timestamp rules gives for the parsed payload p
\* of a sentence-end frame while the sentence cs is open
ByPriority(p, cs) ==
  IF p.hasWords THEN wordsTimestampInfo(p.words, Or(p.text, cs))
  ELSE IF p.hasTimestamps THEN passTimestamps(p)
  ELSE IF p.sentence # <<>> \/ p.text # <<>> \/ p.duration # 0
  THEN generateEstimatedTimestamps(Or(p.sentence, Or(p.text, cs)), OrNum(p.duration, 2000))
  ELSE generateEstimatedTimestamps(cs, 2000)

\* C29: the sentence_complete event of a parseable sentence-end payload
\* carries the timestamps of the first rule that applies: words, explicit
\* timestamps, estimation over the supplied duration (or 2000 ms) when the
\* sentence text or a duration is supplied, estimation of the current
\* sentence over 2000 ms.
C29_RulePriority ==
  [][(/\ Handled
      /\ HandledFrame.event = "TTSSentenceEnd"
      /\ HandledFrame.payload.json = "obj"
      /\ Emitted # <<>>) =>
       LET info == ByPriority(HandledFrame.payload, proc.currentSentence)
       IN /\ Emitted[1].audioTimestamps = info.timestamps
          /\ Emitted[1].totalAudioDuration = info.totalDuration]_vars

\* C30: explicit timestamps without words arrive in the event one-to-one and
\* in order under either naming convention; the total is the supplied total
\* when there is one, else the greatest end time.
C30_ExplicitTimestamps ==
  [][(/\ Handled
      /\ HandledFrame.event = "TTSSentenceEnd"
      /\ HandledFrame.payload.hasTimestamps
      /\ ~HandledFrame.payload.hasWords
      /\ Emitted # <<>>) =>
       /\ Emitted[1].audioTimestamps = ScenarioStamps
       /\ Emitted[1].totalAudioDuration =
            IF HandledFrame.payload.total_duration # 0 \/ HandledFrame.payload.totalDuration # 0
            THEN SuppliedTotal
            ELSE 600]_vars

\* snake_case timestamps with a supplied total, then camelCase ones without
C30_Witness ==
  /\ Len(rcvd) = 3
  /\ rcvd[2] = Frame("TTSSentenceEnd", Undef, SnakePayload(SuppliedTotal))
  /\ rcvd[3] = Frame("TTSSentenceStart", 2, NoPayload)
  /\ Len(events) = 3
  /\ events[2].audioTimestamps = ScenarioStamps
  /\ events[2].totalAudioDuration = SuppliedTotal

\* C31: a sentence-end frame whose payload does not parse, coming in while
\* the processor has a current sentence, still produces the sentence_complete
\* event, with the timestamps estimated from the current sentence text over
\* 2000 ms, and leaves the processor ready for the next sentence.
C31_ParseErrorContained ==
  [][(/\ Handled
      /\ HandledFrame.event = "TTSSentenceEnd"
      /\ HandledFrame.payload.json = "bad"
      /\ Truthy(proc.currentSentenceId)) =>
       LET info == generateEstimatedTimestamps(proc.currentSentence, 2000)
       IN /\ Len(Emitted) = 1
          /\ Emitted[1].type = "sentence_complete"
          /\ Emitted[1].sentenceId = proc.currentSentenceId
          /\ Emitted[1].audioTimestamps = info.timestamps
          /\ Emitted[1].audioTimestamps # <<>>
          /\ Emitted[1].totalAudioDuration = info.totalDuration
          /\ proc'.currentSentenceId = Undef]_vars

\* the sentence "nh." ended with a payload that does not parse, its
\* sentence_complete carries three estimated timestamps, and the next
\* sentence started
C31_Witness ==
  /\ Len(rcvd) = 3
  /\ rcvd[1] = Frame("TTSSentenceStart", 1, TextPayload(ScenarioText))
  /\ rcvd[2] = Frame("TTSSentenceEnd", Undef, BadPayload)
  /\ rcvd[3] = Frame("TTSSentenceStart", 2, NoPayload)
  /\ Len(events) = 3
  /\ events[2].type = "sentence_complete"
  /\ Len(events[2].audioTimestamps) = 3
  /\ events[3].type = "sentence_start"

\* audio chunks stored across the sentences the client holds
RECURSIVE StoredChunks(_)
StoredChunks(ids) ==
  IF ids = {} THEN 0
  ELSE LET id == CHOOSE x \in ids : TRUE
       IN Len(sentences[id].audioChunks) + StoredChunks(ids \ {id})

\* C32: the client's statistics agree with the sentences it holds:
\* completedSentences is at most totalSentences, totalSentences is the number
\* of sentences held and totalChunks the number of audio chunks stored in them.
C32_StatsConsistent ==
  /\ stats.completedSentences <= stats.totalSentences
  /\ stats.totalSentences = Cardinality(DOMAIN sentences)
  /\ stats.totalChunks = StoredChunks(DOMAIN sentences)

\* C33: the totalChunks of every sentence_complete event is the number of
\* audio_chunk events with its sentence id since the latest sentence_start
\* event with that id.
C33_TotalChunksCounted ==
  \A i \in DOMAIN events :
    events[i].type = "sentence_complete" =>
      LET S == {j \in 1..(i - 1) : /\ events[j].type = "sentence_start"
                                   /\ events[j].sentenceId = events[i].sentenceId}
      IN /\ S # {}
         /\ events[i].totalChunks =
              Cardinality({k \in (Max(S) + 1)..(i - 1) :
                             /\ events[k].type = "audio_chunk"
                             /\ events[k].sentenceId = events[i].sentenceId})

\* a sentence with one audio chunk was completed with totalChunks 1
C33_Witness ==
  /\ Len(events) = 3
  /\ events[1].type = "sentence_start"
  /\ events[2].type = "audio_chunk"
  /\ events[3].type = "sentence_complete"
  /\ events[3].totalChunks = 1
  /\ events[3].sentenceId = events[2].sentenceId

\* C34: the close event of a socket that disconnect() closed schedules no
\* reconnect and, when the client holds a newer socket, leaves the connection
\* status alone; no reconnect timer is pending after a disconnect() that no
\* connect() has followed.
C34_NoReconnectAfterDisconnect ==
  /\ [][\A i \in conn.manualSocks :
           SocketCloses(i) =>
             /\ conn'.timers = conn.timers
             /\ conn'.reconnectAttempts = conn.reconnectAttempts
             /\ conn.ws # 0 => conn'.connectionStatus = conn.connectionStatus]_vars
  /\ [](conn.isManualDisconnect => conn.timers = {})

\* C35: the status is connected or processing only while the socket the
\* client holds is open.
C35_StatusMatchesSocket ==
  conn.connectionStatus \in {"connected", "processing"} =>
    conn.ws # 0 /\ conn.socks[conn.ws] = "open"

\* C39: a pending connect() promise is never left without what settles it:
\* while the promise of socket i is pending, the socket's connect timeout is
\* still armed or the socket's error event is due.
C39_ConnectSettles ==
  \A i \in 1..MaxSockets :
    conn.promises[i] = "pending" =>
      i \in conn.connectTimeouts \/ conn.socks[i] = "aborted"

\* C37: a start() on a running server throws and changes nothing; isRunning
\* becomes true only in the step in which the listener comes up and a start()
\* that fails leaves it as it was; a stop() on a stopped server changes
\* nothing; when stop() completes isRunning is false and the registry empty.
C37_ServerLifecycle ==
  [][/\ (isRunning /\ startCall' # startCall)
          => /\ startCall' = "threw"
             /\ isRunning' /\ server' = server /\ hub' = hub
     /\ (~isRunning /\ isRunning')
          => server' = "listening" /\ startCall = "pending" /\ startCall' = "resolved"
     /\ (startCall' # startCall /\ startCall' \in {"threw", "rejected"})
          => isRunning' = isRunning
     /\ (~isRunning /\ hub'.stopCall # hub.stopCall)
          => /\ hub'.stopCall = "noop"
             /\ hub'.clients = hub.clients
             /\ UNCHANGED serverVars
     /\ (hub.stopCall # "resolved" /\ hub'.stopCall = "resolved")
          => ~isRunning' /\ hub'.clients = {}]_vars

\* a server that had a client was stopped, and a further stop() was a no-op
C37_Witness ==
  /\ hub.stopCall = "noop"
  /\ hub.created >= 1
  /\ hub.clients = {}
  /\ ~isRunning
  /\ server = "closed"

TypeOK ==
  /\ pc \in {"idle", "returned", "create", "wsOpen", "handshake", "startSession",
             "join", "finSession", "finConn", "waitFin", "done", "failed"}
  /\ reader \in {"none", "running", "resolved", "rejected"}
  /\ writer \in {"none", "running", "sending", "resolved", "rejected"}
  /\ sock \in {"none", "connecting", "open", "closed"}

\* ---- C36 ----
\* C36: a client connection has at most one conversation in progress: no two
\* calls of handleStartConversation for the same client are between
\* conversation_started and their end at the same time.
C36_OneConversationPerClient ==
  \A i, j \in DOMAIN hub.handlers :
    ( /\ i # j
      /\ hub.handlers[i].kind = "conv" /\ hub.handlers[j].kind = "conv"
      /\ hub.handlers[i].client = hub.handlers[j].client
      /\ hub.handlers[i].pc \in {"init", "session", "closing"} )
    => hub.handlers[j].pc \notin {"init", "session", "closing"}

\* ---- C38 ----
\* the synthesis_complete and synthesis_error events handler i wrote
SynthReplies(i) ==
  SelectSeq(hub.handlers[i].sent,
            LAMBDA e : e.type \in {"synthesis_complete", "synthesis_error"})

SynthRequest(i) ==
  /\ i \in DOMAIN hub.handlers
  /\ hub.handlers[i].kind = "synth"
  /\ hub.handlers[i].requestId # 0

\* the request of handler i is answered or its client has left
SynthSettled(i) ==
  /\ i \in DOMAIN hub.handlers
  /\ Len(SynthReplies(i)) = 1 \/ hub.handlers[i].client \notin hub.clients

====
